---- MODULE Spec2Model ----
(***************************************************************************)
(* Connection state machine and event dispatch of HookRClient              *)
(* (src/src/client.ts), together with the WebSocket transports it creates  *)
(* and the timers it arms.                                                 *)
(*                                                                         *)
(* One action of the model is one callback of the JavaScript event loop    *)
(* run to completion: a public method call, a transport event listener, a  *)
(* timer callback, or the promise reaction (.catch) of a reconnection      *)
(* attempt.  A promise reaction is a microtask: it runs after the callback *)
(* that rejected the promise and after the events the transport emits in   *)
(* the same turn, and before any other timer, I/O event or caller code.    *)
(***************************************************************************)
EXTENDS Integers, Sequences, FiniteSets, TLC

\* ------------------------------------------------------------------ bounds
MaxSockets == 2
MaxConfiguredAttempts == 2
MaxHandlers == 3
MaxClock == 2
MaxLogCalls == 2
MaxPending == 2
RandomSteps == 8

\* --------------------------------------------------------------- constants
AuthCodePolicy == 1008
AuthCodeCustom == 4001

DISCONNECTED == "disconnected"
CONNECTING == "connecting"
CONNECTED == "connected"
RECONNECTING == "reconnecting"
CLOSED == "closed"
ConnectionState == {DISCONNECTED, CONNECTING, CONNECTED, RECONNECTING, CLOSED}

VARIABLES
  options,            \* this.options (only maxReconnectAttempts is read here)
  connectionState,    \* this.connectionState
  handlers,           \* this.handlers : sequence of [type, handler]
  clientId,           \* this.clientId ("null" or an identity)
  reconnectAttempts,  \* this.reconnectAttempts
  reconnectTimer,     \* this.reconnectTimer is non-null
  isClosed,           \* this.isClosed
  ws,                 \* this.ws : index into sockets, 0 for null
  sockets,            \* every WebSocket the client constructed, in order,
                      \* with the promise and timeout of its connect() call
  pendingCatch,       \* rejection message of the reconnection attempt whose
                      \* .catch reaction is queued ("none": no microtask)
  cycle               \* history since the last successful open

\* An EventLogger (src/src/event-logger.ts), the directory it writes to and
\* the clock it names its files by.  The client holds no reference to it.
VARIABLES
  eventLogger,        \* its fields logFilePath, eventCount, isInitialized
  files,              \* the files of baseDir: path -> [exists, lines]
  now,                \* Date.now(), in milliseconds
  inFlight,           \* fs operations awaited by initialize() and logEvent()
  logged              \* history: logEvent calls made, and those whose append
                      \* succeeded, in the order the appends completed

clientVars ==
  <<options, connectionState, handlers, clientId, reconnectAttempts,
    reconnectTimer, isClosed, ws, sockets, pendingCatch, cycle>>

loggerVars == <<eventLogger, files, now, inFlight, logged>>

vars == <<clientVars, loggerVars>>

\* Strings of the logger are sequences of parts, a path is the sequence of
\* its segments; '' is the empty sequence.
BaseDir == <<"logs">>
generateLogFilename(clock) == <<"zhook-logs", clock>>
join(dir, filename) == Append(dir, filename)
LogPaths == {join(BaseDir, generateLogFilename(t)) : t \in 1..MaxClock}
NoFile == [exists |-> FALSE, lines |-> <<>>]

\* new EventLogger({ baseDir }) on a directory without log files
LoggerInit ==
  /\ eventLogger = [logFilePath |-> <<>>, eventCount |-> 0,
                    isInitialized |-> FALSE]
  /\ files = [path \in LogPaths |-> NoFile]
  /\ now = 1
  /\ inFlight = <<>>
  /\ logged = [calls |-> 0, succeeded |-> <<>>]

\* ----------------------------------------------------------------- strings
\* Close reasons are sequences of characters so that toLowerCase() and
\* includes() are computed, not assumed.
Upper == <<"A", "U", "T", "H", "I", "N", "V", "L", "D">>
Lower == <<"a", "u", "t", "h", "i", "n", "v", "l", "d">>

toLowerCaseChar(ch) ==
  IF \E i \in 1..Len(Upper) : Upper[i] = ch
  THEN Lower[CHOOSE i \in 1..Len(Upper) : Upper[i] = ch]
  ELSE ch

toLowerCase(s) == [i \in 1..Len(s) |-> toLowerCaseChar(s[i])]

includes(s, sub) ==
  \E i \in 1..(Len(s) - Len(sub) + 1) : SubSeq(s, i, i + Len(sub) - 1) = sub

StrAuth == <<"a", "u", "t", "h">>
StrInvalid == <<"i", "n", "v", "a", "l", "i", "d">>

ReasonNone == <<>>
ReasonBye == <<"b", "y", "e">>
ReasonAuth == <<"n", "o", " ", "A", "u", "t", "h">>
ReasonInvalid == <<"I", "N", "V", "A", "L", "I", "D">>
ReasonNearMiss == <<"a", "u", "t", " ", "i", "n", "v", "a", "l", "i">>

\* (code, reason) pairs a transport may report with its close event
CloseEvents ==
  { <<1000, ReasonBye>>, <<1006, ReasonNone>>, <<1000, ReasonNearMiss>>,
    <<AuthCodePolicy, ReasonBye>>, <<AuthCodeCustom, ReasonNone>>,
    <<1000, ReasonAuth>>, <<1001, ReasonInvalid>> }

\* ---------------------------------------------------------------- handlers
HandlerTypes == {"event", "connection", "error"}
\* callbacks a caller may register: two that return and two that throw
Callbacks == {"f", "g", "fThrows", "gThrows"}
Throws(h) == h \in {"fThrows", "gThrows"}
Entry(type, h) == [type |-> type, handler |-> h]
\* the registries the application builds while the connection is exercised
Registries ==
  { <<>>,
    <<Entry("error", "f")>>,
    <<Entry("error", "f"), Entry("event", "g")>>,
    <<Entry("error", "f"), Entry("event", "g"),
      Entry("connection", "fThrows")>> }

\* ------------------------------------------------------------------ errors
AuthenticationFailed(reason) == <<"Authentication failed", reason>>
MaxAttemptsError(n) == <<"Maximum reconnection attempts reached", n>>
ExhaustedError(msg) == <<"All reconnection attempts failed", msg>>
TransportError == <<"transport error">>
ParseError == <<"Message parsing failed">>
ConnectionHandlerError == <<"Connection handler error">>

RejectedWsError == "WebSocket connection failed"
RejectedTimeout == "Connection timeout"
RejectedCreate == "Failed to create WebSocket connection"
Rejections == {RejectedWsError, RejectedTimeout, RejectedCreate}

\* ------------------------------------------------------------------ state
\* The whole mutable state as one record, so that a method that calls other
\* methods is the composition of their effects.  A method maps the record at
\* the start of a callback to the record at its end.  Three fields are what
\* the callback gives to the outside and are not kept from one callback to
\* the next: emitted (the errors passed to emitError), calls (the handler
\* invocations made, in order), result (how a public call returned), thrown
\* (the exception in flight, "none" when control flows normally), and for the
\* hook operations error (the Error thrown), requests (the HTTP requests
\* issued) and returned (the value the operation resolved with).  observed
\* holds, for each handler invocation of calls, what getClientId() returns
\* to the handler while it runs.
\* An Error: its message in parts, and the status it is annotated with.
NoError == [text |-> "", detail |-> "", suffix |-> "", hasStatus |-> FALSE,
            status |-> 0]
Error(text, detail) == [NoError EXCEPT !.text = text, !.detail = detail]

Begin ==
  [ options |-> options, connectionState |-> connectionState,
    handlers |-> handlers, clientId |-> clientId,
    reconnectAttempts |-> reconnectAttempts,
    reconnectTimer |-> reconnectTimer, isClosed |-> isClosed, ws |-> ws,
    sockets |-> sockets, pendingCatch |-> pendingCatch, cycle |-> cycle,
    emitted |-> <<>>, calls |-> <<>>, result |-> "none", thrown |-> "none",
    error |-> NoError, requests |-> <<>>, returned |-> [kind |-> "undefined"],
    observed |-> <<>> ]

Commit(m) ==
  /\ options' = m.options
  /\ connectionState' = m.connectionState
  /\ handlers' = m.handlers
  /\ clientId' = m.clientId
  /\ reconnectAttempts' = m.reconnectAttempts
  /\ reconnectTimer' = m.reconnectTimer
  /\ isClosed' = m.isClosed
  /\ ws' = m.ws
  /\ sockets' = m.sockets
  /\ pendingCatch' = m.pendingCatch
  /\ cycle' = m.cycle
  /\ UNCHANGED loggerVars

\* History of the current reconnection cycle: since the last 'open', or
\* since construction.  The methods write it and never read it; under Spec it
\* is not recorded at all (Unrecorded), under HistorySpec it counts
\*   scheduled: reconnection timers armed
\*   started:   reconnection timer callbacks that went on to connect()
\*   failed:    connect() calls of the reconnection timer that rejected
\*   terminal:  terminal reconnection errors passed to emitError
\*   user:      the application called connect() during the cycle
Unrecorded == [recorded |-> FALSE]
NoCycle ==
  [recorded |-> TRUE, scheduled |-> 0, started |-> 0, failed |-> 0,
   terminal |-> 0, user |-> FALSE]
Count(c, field) == IF c.recorded THEN [c EXCEPT ![field] = @ + 1] ELSE c
Restart(c) == IF c.recorded THEN NoCycle ELSE c
ByUser(c) == IF c.recorded THEN [c EXCEPT !.user = TRUE] ELSE c

\* new WebSocket(url) with the listeners and the timeout connect() gives it
\* promise: the promise of the connect() call that made the socket, "pending"
\* until resolve() or reject() settles it; reaction: "catch" while the .catch
\* of the reconnection timer (client.ts:643) waits on that promise
NewSocket(origin) ==
  [ ready |-> "connecting", listeners |-> TRUE, timeout |-> TRUE,
    promise |-> "pending",
    reaction |-> IF origin = "timer" THEN "catch" ELSE "none" ]

Init ==
  /\ options \in [maxReconnectAttempts : 0..MaxConfiguredAttempts]
  /\ connectionState = DISCONNECTED
  /\ handlers = <<>>
  /\ clientId = "null"
  /\ reconnectAttempts = 0
  /\ reconnectTimer = FALSE
  /\ isClosed = FALSE
  /\ ws = 0
  /\ sockets = <<>>
  /\ pendingCatch = "none"
  /\ cycle = Unrecorded
  /\ LoggerInit

\* the same construction, with the history of the cycle recorded
HistoryInit ==
  /\ options \in [maxReconnectAttempts : 0..MaxConfiguredAttempts]
  /\ connectionState = DISCONNECTED
  /\ handlers = <<>>
  /\ clientId = "null"
  /\ reconnectAttempts = 0
  /\ reconnectTimer = FALSE
  /\ isClosed = FALSE
  /\ ws = 0
  /\ sockets = <<>>
  /\ pendingCatch = "none"
  /\ cycle = NoCycle
  /\ LoggerInit


\* ------------------------------------------------------- transport (ws)
\* ws.close(): a handshake in progress is aborted (the library then emits
\* 'error' and 'close'), an open connection starts closing ('close' follows),
\* a closing or closed one is left alone.
wsClose(sock) ==
  CASE sock.ready = "connecting" -> [sock EXCEPT !.ready = "aborted"]
    [] sock.ready = "open" -> [sock EXCEPT !.ready = "closing"]
    [] OTHER -> sock

\* --------------------------------------------------------------- promises
resolve(m, t) ==
  IF m.sockets[t].promise = "pending"
  THEN [m EXCEPT !.sockets[t].promise = "resolved",
                 !.sockets[t].reaction = "none"]
  ELSE m

\* reject(): settles the promise of socket t's connect() call; the .catch of
\* a reconnection attempt (client.ts:643) is queued as a microtask.
reject(m, t, why) ==
  IF m.sockets[t].promise = "pending"
  THEN [m EXCEPT !.sockets[t].promise = "rejected",
                 !.sockets[t].reaction = "none",
                 !.pendingCatch =
                    IF m.sockets[t].reaction = "catch" THEN why ELSE @,
                 !.cycle =
                    IF m.sockets[t].reaction = "catch"
                    THEN Count(@, "failed") ELSE @]
  ELSE m

\* ------------------------------------------------------------- dispatcher
Invocation(type, h, arg) == [type |-> type, handler |-> h, arg |-> arg]

HandlersOfType(hs, type) == SelectSeq(hs, LAMBDA e : e.type = type)

\* Callbacks that call back into the client while they run: fAdds registers
\* the callback g in the category it was itself invoked for (the push of
\* client.ts:393, :412 or :431), fRemoves calls removeHandler(g) (the filter
\* of client.ts:450).  The other callbacks leave the client alone.
Reentrant == {"fAdds", "fRemoves"}

runCallback(m, type, h) ==
  CASE h = "fAdds" -> [m EXCEPT !.handlers = Append(@, Entry(type, "g"))]
    [] h = "fRemoves" ->
         [m EXCEPT !.handlers = SelectSeq(@, LAMBDA e : e.handler # "g")]
    [] OTHER -> m

\* entry.handler(arg): the call is made and the callback's body runs; a
\* callback that throws leaves its exception in flight
invoke(m, type, h, arg) ==
  LET m1 == [m EXCEPT !.calls = Append(@, Invocation(type, h, arg)),
                      !.observed = Append(@, m.clientId)]
  IN  [runCallback(m1, type, h) EXCEPT
         !.thrown = IF Throws(h) THEN "handler threw" ELSE @]

\* catch (error) { ... }: the exception in flight is taken by the handler
caught(m) == [m EXCEPT !.thrown = "none"]

\* errorHandlers.forEach(entry => { try { handler(error) } catch { log } });
\* forEach stops at an exception that leaves its callback
RECURSIVE forEachErrorHandler(_, _, _)
forEachErrorHandler(m, entries, error) ==
  IF entries = <<>> \/ m.thrown # "none"
  THEN m
  ELSE LET m1 == invoke(m, "error", Head(entries).handler, error)
           m2 == IF m1.thrown # "none" THEN caught(m1) ELSE m1
       IN  forEachErrorHandler(m2, Tail(entries), error)

\* mutant: no try/catch around the error handler, the first one that
\* throws ends the loop
emitError_FirstThrowStops(m, error) ==
  LET hs == HandlersOfType(m.handlers, "error")
      throwers == {i \in 1..Len(hs) : Throws(hs[i].handler)}
      last == IF throwers = {}
              THEN Len(hs)
              ELSE CHOOSE i \in throwers : \A j \in throwers : i <= j
  IN  [m EXCEPT !.emitted = Append(@, error),
                !.calls = @ \o [i \in 1..last |->
                                  Invocation("error", hs[i].handler, error)],
                !.thrown = IF throwers = {} THEN @ ELSE "handler threw"]

emitError(m, error) ==
  LET errorHandlers == HandlersOfType(m.handlers, "error")
      m1 == [m EXCEPT !.emitted = Append(@, error)]
  IN  IF Len(errorHandlers) = 0
      THEN m1
      ELSE forEachErrorHandler(m1, errorHandlers, error)

RECURSIVE forEachEventHandler(_, _, _)
forEachEventHandler(m, entries, event) ==
  IF entries = <<>> \/ m.thrown # "none"
  THEN m
  ELSE LET m1 == invoke(m, "event", Head(entries).handler, event)
           m2 == IF m1.thrown # "none" THEN caught(m1) ELSE m1
       IN  forEachEventHandler(m2, Tail(entries), event)

\* mutant: no try/catch around the event handler, the first one that
\* throws ends the loop
handleWebhookEvent_FirstThrowStops(m, event) ==
  LET hs == HandlersOfType(m.handlers, "event")
      throwers == {i \in 1..Len(hs) : Throws(hs[i].handler)}
      last == IF throwers = {}
              THEN Len(hs)
              ELSE CHOOSE i \in throwers : \A j \in throwers : i <= j
  IN  [m EXCEPT !.calls = @ \o [i \in 1..last |->
                                  Invocation("event", hs[i].handler, event)],
                !.thrown = IF throwers = {} THEN @ ELSE "handler threw"]

\* mutant: the loop reads this.handlers anew at every step
RECURSIVE forEachLiveEventHandler(_, _, _)
forEachLiveEventHandler(m, i, event) ==
  LET entries == HandlersOfType(m.handlers, "event")
  IN  IF i > Len(entries)
      THEN m
      ELSE forEachLiveEventHandler(
             caught(invoke(m, "event", entries[i].handler, event)),
             i + 1, event)

handleWebhookEvent_LiveRegistry(m, event) ==
  forEachLiveEventHandler(m, 1, event)

handleWebhookEvent(m, event) ==
  forEachEventHandler(m, HandlersOfType(m.handlers, "event"), event)

RECURSIVE forEachConnectionHandler(_, _, _)
forEachConnectionHandler(m, entries, event) ==
  IF entries = <<>> \/ m.thrown # "none"
  THEN m
  ELSE LET m1 == invoke(m, "connection", Head(entries).handler, event)
           m2 == IF m1.thrown # "none"
                 THEN emitError(caught(m1), ConnectionHandlerError)
                 ELSE m1
       IN  forEachConnectionHandler(m2, Tail(entries), event)

\* mutant: the identity is stored after the connection handlers have run
handleConnectionConfirmation_HandlersFirst(m, event) ==
  LET connectionHandlers == HandlersOfType(m.handlers, "connection")
      m1 == forEachConnectionHandler(m, connectionHandlers, event)
  IN  [m1 EXCEPT !.clientId = event.clientId]

handleConnectionConfirmation(m, event) ==
  LET m1 == [m EXCEPT !.clientId = event.clientId]
      connectionHandlers == HandlersOfType(m1.handlers, "connection")
  IN  forEachConnectionHandler(m1, connectionHandlers, event)

\* Inbound payload texts and what JSON.parse makes of them.
RawConnected == "{\"type\":\"connected\",\"message\":\"hi\",\"clientId\":\"c1\"}"
RawEvent == "{\"type\":\"event\",\"eventId\":\"e1\",\"hookId\":\"k1\"}"
RawPing == "{\"type\":\"ping\"}"
RawNumber == "42"
RawNull == "null"
RawString == "\"event\""
RawMalformed == "not json"
Payloads ==
  {RawConnected, RawEvent, RawPing, RawNumber, RawNull, RawMalformed}

\* HTTP response bodies
BodyHook == "{\"id\":\"h1\",\"name\":\"hook\"}"
BodyMessage == "{\"message\":\"bad\"}"
BodyError == "{\"error\":\"nope\"}"
BodyEmptyObject == "{}"
BodyList == "[]"
BodyHtml == "<html>"
BodyEmpty == ""

SyntaxError == [threw |-> "SyntaxError"]
JSONparse(text) ==
  CASE text = RawConnected ->
         [kind |-> "object", type |-> "connected", message |-> "hi",
          clientId |-> "c1"]
    [] text = RawEvent ->
         [kind |-> "object", type |-> "event", eventId |-> "e1",
          hookId |-> "k1"]
    [] text = RawPing -> [kind |-> "object", type |-> "ping"]
    [] text = RawNumber -> [kind |-> "number", type |-> "undefined"]
    [] text = RawNull -> [kind |-> "null"]
    [] text = RawString -> [kind |-> "string", type |-> "undefined"]
    [] text = BodyHook ->
         [kind |-> "object", id |-> "h1", name |-> "hook"]
    [] text = BodyMessage -> [kind |-> "object", message |-> "bad"]
    [] text = BodyError -> [kind |-> "object", error |-> "nope"]
    [] text = BodyEmptyObject -> [kind |-> "object"]
    [] text = BodyList -> [kind |-> "array"]
    [] OTHER -> SyntaxError

\* the body of handleMessage's try block: JSON.parse throws on malformed
\* text, reading .type of null throws a TypeError
dispatchMessage(m, data) ==
  LET message == JSONparse(data)
  IN  CASE message = SyntaxError -> [m EXCEPT !.thrown = "SyntaxError"]
        [] message.kind = "null" -> [m EXCEPT !.thrown = "TypeError"]
        [] message.type = "connected" ->
             handleConnectionConfirmation(m, message)
        [] message.type = "event" -> handleWebhookEvent(m, message)
        [] OTHER -> m

\* mutant: the catch block swallows the failure without reporting it
handleMessage_Swallows(m, data) == caught(dispatchMessage(m, data))

handleMessage(m, data) ==
  LET m1 == dispatchMessage(m, data)
  IN  IF m1.thrown # "none"
      THEN emitError(caught(m1), ParseError)
      ELSE m1

\* ----------------------------------------------------------- reconnection
\* mutant: the counter is reset and the pending timer is left armed
resetReconnectionState_KeepsTimer(m) == [m EXCEPT !.reconnectAttempts = 0]

\* mutant: the pending timer is cleared and the counter is left as it was
resetReconnectionState_KeepsCounter(m) == [m EXCEPT !.reconnectTimer = FALSE]

resetReconnectionState(m) ==
  [m EXCEPT !.reconnectAttempts = 0, !.reconnectTimer = FALSE]

\* The backoff delay (client.ts:609-616).  Math.random() is a multiple of
\* 1/RandomSteps in [0, 1); a delay is held in units of 1/DelayScale ms, in
\* which the jitter of every such draw is a whole number.
Randoms == 0..(RandomSteps - 1)
DelayScale == 8 * RandomSteps
MinDelay == 100
RECURSIVE pow(_, _)
pow(base, n) == IF n = 0 THEN 1 ELSE base * pow(base, n - 1)

max(a, b) == IF a >= b THEN a ELSE b

\* baseDelay * Math.pow(2, this.reconnectAttempts - 1)
exponentialDelay(baseDelay, attempts) ==
  baseDelay * pow(2, attempts - 1) * DelayScale

\* exponentialDelay * 0.25 * (Math.random() - 0.5)
jitter(exponential, random) ==
  (exponential * (2 * random - RandomSteps)) \div (8 * RandomSteps)

\* mutant: the floor is applied to the exponential delay, the jitter after it
finalDelay_ClampFirst(baseDelay, attempts, random) ==
  LET exponential == exponentialDelay(baseDelay, attempts)
  IN  max(MinDelay * DelayScale, exponential) + jitter(exponential, random)

\* Math.max(100, exponentialDelay + jitter)
finalDelay(baseDelay, attempts, random) ==
  LET exponential == exponentialDelay(baseDelay, attempts)
  IN  max(MinDelay * DelayScale, exponential + jitter(exponential, random))

\* mutant: the retry budget is compared with > instead of >=
attemptReconnection_OffByOne(m) ==
  IF m.isClosed
  THEN m
  ELSE IF m.reconnectAttempts > m.options.maxReconnectAttempts
       THEN emitError(
              [m EXCEPT !.connectionState = DISCONNECTED,
                        !.cycle = Count(@, "terminal")],
              MaxAttemptsError(m.options.maxReconnectAttempts))
       ELSE [m EXCEPT !.reconnectAttempts = @ + 1,
                      !.connectionState = RECONNECTING,
                      !.reconnectTimer = TRUE,
                      !.cycle = Count(@, "scheduled")]

\* mutant: an exhausted budget is not reported
attemptReconnection_Silent(m) ==
  IF m.isClosed
  THEN m
  ELSE IF m.reconnectAttempts >= m.options.maxReconnectAttempts
       THEN [m EXCEPT !.connectionState = DISCONNECTED,
                      !.cycle = Count(@, "terminal")]
       ELSE [m EXCEPT !.reconnectAttempts = @ + 1,
                      !.connectionState = RECONNECTING,
                      !.reconnectTimer = TRUE,
                      !.cycle = Count(@, "scheduled")]

attemptReconnection(m) ==
  IF m.isClosed
  THEN m
  ELSE IF m.reconnectAttempts >= m.options.maxReconnectAttempts
       THEN emitError(
              [m EXCEPT !.connectionState = DISCONNECTED,
                        !.cycle = Count(@, "terminal")],
              MaxAttemptsError(m.options.maxReconnectAttempts))
       ELSE [m EXCEPT !.reconnectAttempts = @ + 1,
                      !.connectionState = RECONNECTING,
                      !.reconnectTimer = TRUE,
                      !.cycle = Count(@, "scheduled")]

isAuthenticationError(code, reason) ==
  \/ code = AuthCodePolicy
  \/ code = AuthCodeCustom
  \/ includes(toLowerCase(reason), StrAuth)
  \/ includes(toLowerCase(reason), StrInvalid)

\* mutant: an authentication failure closes the client
handleDisconnect_AuthCloses(m, code, reason) ==
  IF m.isClosed
  THEN m
  ELSE LET m1 == [m EXCEPT !.connectionState = DISCONNECTED,
                           !.clientId = "null"]
       IN  IF isAuthenticationError(code, reason)
           THEN emitError([m1 EXCEPT !.isClosed = TRUE,
                                     !.connectionState = CLOSED],
                          AuthenticationFailed(reason))
           ELSE attemptReconnection(m1)

handleDisconnect(m, code, reason) ==
  IF m.isClosed
  THEN m
  ELSE LET m1 == [m EXCEPT !.connectionState = DISCONNECTED,
                           !.clientId = "null"]
       IN  IF isAuthenticationError(code, reason)
           THEN emitError(m1, AuthenticationFailed(reason))
           ELSE attemptReconnection(m1)

\* the .catch of the connect() call made by the reconnection timer
reconnectCatch(m, errorMessage) ==
  IF m.reconnectAttempts < m.options.maxReconnectAttempts
  THEN attemptReconnection(m)
  ELSE emitError(
         [m EXCEPT !.connectionState = DISCONNECTED,
                   !.cycle = Count(@, "terminal")],
         ExhaustedError(errorMessage))

\* ----------------------------------------------------------------- connect
connect(m, origin, constructorThrows) ==
  IF m.isClosed
  THEN [m EXCEPT !.result = "Cannot connect: client has been closed"]
  ELSE IF m.connectionState = CONNECTED
       THEN [m EXCEPT !.result = "resolved"]
       ELSE LET m1 == [m EXCEPT !.connectionState = CONNECTING,
                                !.result = "pending",
                                !.cycle =
                                   IF origin = "user" THEN ByUser(@)
                                   ELSE @]
                t == Len(m.sockets) + 1
            IN  IF constructorThrows
                THEN [m1 EXCEPT !.connectionState = DISCONNECTED,
                                !.result = RejectedCreate,
                                !.pendingCatch =
                                   IF origin = "timer"
                                   THEN RejectedCreate ELSE @,
                                !.cycle =
                                   IF origin = "timer"
                                   THEN Count(@, "failed") ELSE @]
                ELSE [m1 EXCEPT !.sockets = Append(@, NewSocket(origin)),
                                !.ws = t]

\* whether connect() would go on to construct a WebSocket
StartsAttempt(m) == ~m.isClosed /\ m.connectionState # CONNECTED

\* the two 'open' listeners (client.ts:272 and :318)
onOpen(m, t) ==
  LET m1 == [m EXCEPT !.connectionState = CONNECTED,
                      !.cycle = Restart(@)]
      m2 == resolve(resetReconnectionState(m1), t)
  IN  [m2 EXCEPT !.sockets[t].timeout = FALSE]

\* mutant: an error outside 'connecting' also marks the client disconnected
onError_Disconnects(m, t) ==
  IF m.connectionState = CONNECTING
  THEN reject([m EXCEPT !.connectionState = DISCONNECTED], t,
              RejectedWsError)
  ELSE emitError([m EXCEPT !.connectionState = DISCONNECTED,
                           !.clientId = "null"], TransportError)

\* the 'error' listener (client.ts:292)
onError(m, t) ==
  IF m.connectionState = CONNECTING
  THEN reject([m EXCEPT !.connectionState = DISCONNECTED], t,
              RejectedWsError)
  ELSE emitError(m, TransportError)

\* the connection timeout callback (client.ts:308)
connectionTimeout(m, t) ==
  IF m.connectionState = CONNECTING
  THEN LET m1 == IF m.ws # 0
                 THEN [m EXCEPT !.sockets[m.ws] = wsClose(@)]
                 ELSE m
       IN  reject([m1 EXCEPT !.connectionState = DISCONNECTED], t,
                  RejectedTimeout)
  ELSE m

\* the reconnection timer callback (client.ts:630)
reconnectTimerFired(m, constructorThrows) ==
  LET m1 == [m EXCEPT !.reconnectTimer = FALSE]
  IN  IF m1.isClosed
      THEN m1
      ELSE connect([m1 EXCEPT !.cycle = Count(@, "started")], "timer",
                   constructorThrows)

\* ------------------------------------------------------------------- close
\* mutant: the body of close() without its isClosed guard
close_NoGuard(m) ==
  LET m1 == resetReconnectionState(
              [m EXCEPT !.isClosed = TRUE, !.connectionState = CLOSED])
      m2 == IF m1.ws # 0
            THEN [m1 EXCEPT
                    !.sockets[m1.ws] = wsClose([@ EXCEPT !.listeners = FALSE]),
                    !.ws = 0]
            ELSE m1
  IN  [m2 EXCEPT !.clientId = "null", !.reconnectAttempts = 0]

close(m) ==
  IF m.isClosed
  THEN m
  ELSE LET m1 == resetReconnectionState(
                   [m EXCEPT !.isClosed = TRUE,
                             !.connectionState = CLOSED])
           m2 == IF m1.ws # 0
                 THEN [m1 EXCEPT
                         !.sockets[m1.ws] =
                            wsClose([@ EXCEPT !.listeners = FALSE]),
                         !.ws = 0]
                 ELSE m1
       IN  [m2 EXCEPT !.clientId = "null", !.reconnectAttempts = 0]

\* ---------------------------------------------------------------- getters
getConnectionState(m) == m.connectionState

getClientId(m) == m.clientId

\* mutant: the state alone decides
isConnected_StateOnly(m) == m.connectionState = CONNECTED

isConnected(m) == m.connectionState = CONNECTED /\ ~m.isClosed

\* ------------------------------------------------------------ registration
NotAFunction == "notAFunction"

\* mutant: the rejected registration is also reported to the error handlers
register_EmitsToo(m, type, h) ==
  IF h = NotAFunction
  THEN emitError([m EXCEPT !.result = "must be a function"],
                 <<"must be a function">>)
  ELSE [m EXCEPT !.handlers = Append(@, Entry(type, h))]

register(m, type, h) ==
  IF h = NotAFunction
  THEN [m EXCEPT !.result = "must be a function"]
  ELSE [m EXCEPT !.handlers = Append(@, Entry(type, h))]

\* mutant: a callback that is not registered takes the last entry away
removeHandler_DropsLast(m, h) ==
  IF \E i \in 1..Len(m.handlers) : m.handlers[i].handler = h
  THEN [m EXCEPT !.handlers = SelectSeq(@, LAMBDA e : e.handler # h)]
  ELSE [m EXCEPT !.handlers = SubSeq(@, 1, Len(@) - 1)]

\* mutant: only the first entry with the callback is removed
removeHandler_FirstOnly(m, h) ==
  LET found == {i \in 1..Len(m.handlers) : m.handlers[i].handler = h}
  IN  IF found = {}
      THEN m
      ELSE LET first == CHOOSE i \in found : \A j \in found : i <= j
           IN  [m EXCEPT !.handlers =
                  SubSeq(@, 1, first - 1) \o SubSeq(@, first + 1, Len(@))]

removeHandler(m, h) ==
  [m EXCEPT !.handlers = SelectSeq(@, LAMBDA e : e.handler # h)]

\* -------------------------------------------------------------- JS values
\* The values a caller can pass where a hook id or a hook configuration is
\* expected.  Strings are sequences of characters so that trim() and the URL
\* scheme are computed; numbers are counted in tenths so that
\* Number.isInteger has non-integers to reject.
Undefined == [kind |-> "undefined"]
Null == [kind |-> "null"]
Str(chars) == [kind |-> "string", chars |-> chars]
Num(tenths) == [kind |-> "number", tenths |-> tenths]
Arr(items) == [kind |-> "array", items |-> items]
Obj(fields) == [kind |-> "object", fields |-> fields]

typeof(v) == IF v.kind \in {"null", "array", "object"} THEN "object" ELSE v.kind

\* !v
falsy(v) ==
  \/ v.kind \in {"undefined", "null"}
  \/ v.kind = "string" /\ v.chars = <<>>
  \/ v.kind = "number" /\ v.tenths = 0

\* v.field, for v that is neither null nor undefined
get(v, field) ==
  IF v.kind = "object" /\ field \in DOMAIN v.fields
  THEN v.fields[field]
  ELSE Undefined

\* Object.keys(v).length
keysLength(v) ==
  IF v.kind = "object" THEN Cardinality(DOMAIN v.fields)
  ELSE IF v.kind = "array" THEN Len(v.items)
  ELSE 0

\* Object.entries(v) holds string values only
stringValues(v) ==
  IF v.kind = "object"
  THEN \A f \in DOMAIN v.fields : typeof(v.fields[f]) = "string"
  ELSE IF v.kind = "array"
       THEN \A i \in 1..Len(v.items) : typeof(v.items[i]) = "string"
       ELSE TRUE

isInteger(v) == v.kind = "number" /\ v.tenths % 10 = 0

RECURSIVE trimStart(_)
trimStart(chars) ==
  IF chars # <<>> /\ Head(chars) = " " THEN trimStart(Tail(chars)) ELSE chars

RECURSIVE trimEnd(_)
trimEnd(chars) ==
  IF chars # <<>> /\ chars[Len(chars)] = " "
  THEN trimEnd(SubSeq(chars, 1, Len(chars) - 1))
  ELSE chars

trim(chars) == trimEnd(trimStart(chars))

\* new URL(chars).protocol: the scheme up to and including the first colon;
\* InvalidUrl when the constructor throws (no scheme)
InvalidUrl == <<>>
protocol(chars) ==
  LET colons == {i \in 1..Len(chars) : chars[i] = ":"}
  IN  IF colons = {}
      THEN InvalidUrl
      ELSE LET c == CHOOSE i \in colons : \A j \in colons : i <= j
           IN  IF c = 1 \/ \E j \in 1..(c - 1) : chars[j] = " "
               THEN InvalidUrl
               ELSE SubSeq(chars, 1, c)

ProtocolHttp == <<"h", "t", "t", "p", ":">>
ProtocolHttps == <<"h", "t", "t", "p", "s", ":">>

\* -------------------------------------------------------------- validators
\* A validator gives the message of the Error it throws, or Valid.
Valid == "valid"

validateHookId(hookId) ==
  IF falsy(hookId) \/ typeof(hookId) # "string"
  THEN "Hook ID is required and must be a string"
  ELSE IF trim(hookId.chars) = <<>>
       THEN "Hook ID cannot be empty"
       ELSE Valid

\* the checks of events, headers and retryPolicy, which validateHookConfig
\* and validatePartialHookConfig both make
validateOptionalFields(config) ==
  LET events == get(config, "events")
      headers == get(config, "headers")
      retryPolicy == get(config, "retryPolicy")
  IN  IF events.kind # "undefined" /\ events.kind # "array"
      THEN "Hook events must be an array"
      ELSE IF events.kind = "array" /\ ~stringValues(events)
      THEN "Hook event at index must be a string"
      ELSE IF headers.kind # "undefined"
              /\ (typeof(headers) # "object" \/ headers.kind = "null")
      THEN "Hook headers must be an object"
      ELSE IF headers.kind # "undefined" /\ ~stringValues(headers)
      THEN "Hook headers must be string key-value pairs"
      ELSE IF retryPolicy.kind = "undefined"
      THEN Valid
      ELSE IF typeof(retryPolicy) # "object" \/ retryPolicy.kind = "null"
      THEN "Hook retry policy must be an object"
      ELSE IF \/ ~isInteger(get(retryPolicy, "maxAttempts"))
              \/ get(retryPolicy, "maxAttempts").tenths < 0
      THEN "Retry policy maxAttempts must be a non-negative integer"
      ELSE IF \/ typeof(get(retryPolicy, "backoffMultiplier")) # "number"
              \/ get(retryPolicy, "backoffMultiplier").tenths <= 0
      THEN "Retry policy backoffMultiplier must be a positive number"
      ELSE Valid

validateHookConfig(config) ==
  LET name == get(config, "name")
      url == get(config, "url")
  IN  IF falsy(config) \/ typeof(config) # "object"
      THEN "Hook config must be an object"
      ELSE IF falsy(name) \/ typeof(name) # "string"
      THEN "Hook name is required and must be a string"
      ELSE IF trim(name.chars) = <<>>
      THEN "Hook name cannot be empty"
      ELSE IF falsy(url) \/ typeof(url) # "string"
      THEN "Hook URL is required and must be a string"
      ELSE IF protocol(url.chars) \notin {ProtocolHttp, ProtocolHttps}
      THEN "Invalid hook URL"
      ELSE validateOptionalFields(config)

validatePartialHookConfig(config) ==
  LET name == get(config, "name")
      url == get(config, "url")
  IN  IF falsy(config) \/ typeof(config) # "object"
      THEN "Hook config must be an object"
      ELSE IF keysLength(config) = 0
      THEN "At least one field must be provided for update"
      ELSE IF name.kind # "undefined"
              /\ (typeof(name) # "string" \/ trim(name.chars) = <<>>)
      THEN "Hook name must be a non-empty string"
      ELSE IF url.kind # "undefined" /\ typeof(url) # "string"
      THEN "Hook URL must be a string"
      ELSE IF url.kind # "undefined"
              /\ protocol(url.chars) \notin {ProtocolHttp, ProtocolHttps}
      THEN "Invalid hook URL"
      ELSE validateOptionalFields(config)

ProtocolWs == <<"w", "s", ":">>
ProtocolWss == <<"w", "s", "s", ":">>
MinKeyLength == 10
MinReconnectDelay == 100

validateClientKey(clientKey) ==
  IF falsy(clientKey) \/ typeof(clientKey) # "string"
  THEN "Client key is required and must be a non-empty string"
  ELSE IF trim(clientKey.chars) = <<>>
  THEN "Client key cannot be empty or whitespace only"
  ELSE IF Len(clientKey.chars) < MinKeyLength
  THEN "Client key appears to be too short"
  ELSE Valid

\* name is 'WebSocket URL' or 'API URL'
validateUrl(url, name) ==
  IF typeof(url) # "string" \/ trim(url.chars) = <<>>
  THEN "must be a non-empty string"
  ELSE IF protocol(url.chars) = InvalidUrl
  THEN "is not a valid URL"
  ELSE IF name = "WebSocket URL"
          /\ protocol(url.chars) \notin {ProtocolWs, ProtocolWss}
  THEN "is not a valid URL"
  ELSE IF name = "API URL"
          /\ protocol(url.chars) \notin {ProtocolHttp, ProtocolHttps}
  THEN "is not a valid URL"
  ELSE Valid

LogLevels ==
  { Str(<<"s", "i", "l", "e", "n", "t">>), Str(<<"e", "r", "r", "o", "r">>),
    Str(<<"w", "a", "r", "n">>), Str(<<"i", "n", "f", "o">>),
    Str(<<"d", "e", "b", "u", "g">>) }

validateOptions(opts) ==
  LET wsUrl == get(opts, "wsUrl")
      apiUrl == get(opts, "apiUrl")
      maxReconnectAttempts == get(opts, "maxReconnectAttempts")
      reconnectDelay == get(opts, "reconnectDelay")
      logLevel == get(opts, "logLevel")
  IN  IF wsUrl.kind # "undefined" /\ validateUrl(wsUrl, "WebSocket URL") # Valid
      THEN validateUrl(wsUrl, "WebSocket URL")
      ELSE IF apiUrl.kind # "undefined" /\ validateUrl(apiUrl, "API URL") # Valid
      THEN validateUrl(apiUrl, "API URL")
      ELSE IF maxReconnectAttempts.kind # "undefined"
              /\ (\/ ~isInteger(maxReconnectAttempts)
                  \/ maxReconnectAttempts.tenths < 0)
      THEN "maxReconnectAttempts must be a non-negative integer"
      ELSE IF reconnectDelay.kind # "undefined"
              /\ (\/ ~isInteger(reconnectDelay)
                  \/ reconnectDelay.tenths < MinReconnectDelay * 10)
      THEN "reconnectDelay must be an integer >= 100ms"
      ELSE IF logLevel.kind # "undefined" /\ logLevel \notin LogLevels
      THEN "logLevel must be one of"
      ELSE Valid

\* new HookRClient(clientKey, opts): what the constructor throws, if anything
constructor(clientKey, opts) ==
  LET this == [thrown |-> "none", error |-> NoError, calls |-> <<>>,
               emitted |-> <<>>]
  IN  IF validateClientKey(clientKey) # Valid
      THEN [this EXCEPT !.thrown = "Error",
                        !.error = Error(validateClientKey(clientKey), "")]
      ELSE IF validateOptions(opts) # Valid
      THEN [this EXCEPT !.thrown = "Error",
                        !.error = Error(validateOptions(opts), "")]
      ELSE this

\* ---------------------------------------------------------- hook operations
\* What fetch() does with a request: it rejects (no response was received)
\* or resolves with a response that has a status and a body; reading the body
\* can fail (BodyUnreadable).
BodyUnreadable == "unreadable"
AuthStatus == 401
ForbiddenStatus == 403
Bodies ==
  {BodyHook, BodyMessage, BodyError, BodyHtml, BodyEmpty, RawNull,
   BodyUnreadable}
Statuses == {200, AuthStatus, ForbiddenStatus, 500}
Fetched ==
  {[kind |-> "rejects", status |-> 0, body |-> BodyEmpty]}
    \cup [kind : {"response"}, status : Statuses, body : Bodies]

ok(response) == response.status >= 200 /\ response.status <= 299

throw(m, error) == [m EXCEPT !.thrown = "Error", !.error = error]

\* errorData.message || errorData.error || 'API request failed', inside a
\* try whose catch gives errorText || `HTTP ${status} ${statusText}`
errorMessageOf(response) ==
  LET errorData == JSONparse(response.body)
      field(name) ==
        IF name \in DOMAIN errorData THEN errorData[name] ELSE ""
  IN  IF errorData = SyntaxError \/ errorData.kind = "null"
      THEN IF response.body # BodyEmpty THEN response.body ELSE "HTTP status"
      ELSE IF field("message") # "" THEN field("message")
      ELSE IF field("error") # "" THEN field("error")
      ELSE "API request failed"

ApiError(response) ==
  [text |-> "API request failed", detail |-> errorMessageOf(response),
   suffix |-> IF response.status = AuthStatus
              THEN "AUTH_VERIFICATION_MESSAGE"
              ELSE IF response.status = ForbiddenStatus
                   THEN "ACCOUNT_MANAGEMENT_MESSAGE"
                   ELSE "",
   hasStatus |-> TRUE, status |-> response.status]

\* the try block of makeApiRequest
apiTry(m, method, fetched) ==
  IF fetched.kind = "rejects"
  THEN throw(m, Error("fetch failed", ""))
  ELSE IF fetched.body = BodyUnreadable /\ ~(ok(fetched) /\ method = "DELETE")
  THEN throw(m, Error("body stream failed", ""))
  ELSE IF ~ok(fetched)
  THEN throw(m, ApiError(fetched))
  ELSE IF method = "DELETE"
  THEN [m EXCEPT !.returned = Undefined]
  ELSE IF fetched.body = BodyEmpty
  THEN [m EXCEPT !.returned = [kind |-> "object"]]
  ELSE IF JSONparse(fetched.body) = SyntaxError
  THEN throw(m, Error("Invalid JSON response from API", "SyntaxError"))
  ELSE [m EXCEPT !.returned = JSONparse(fetched.body)]

\* mutant: the catch block re-throws every error as it caught it
makeApiRequest_Rethrows(m, method, url, body, fetched) ==
  apiTry([m EXCEPT !.requests = Append(@,
            [method |-> method, url |-> url,
             body |-> IF ~falsy(body) /\ method \notin {"GET", "DELETE"}
                      THEN body ELSE Undefined])],
         method, fetched)

makeApiRequest(m, method, url, body, fetched) ==
  LET m1 == [m EXCEPT !.requests = Append(@,
               [method |-> method, url |-> url,
                body |-> IF ~falsy(body) /\ method \notin {"GET", "DELETE"}
                         THEN body ELSE Undefined])]
      tried == apiTry(m1, method, fetched)
  IN  IF tried.thrown = "none" \/ tried.error.hasStatus
      THEN tried
      ELSE throw(tried, Error("Network error during API request",
                              tried.error.text))

\* reading a property of the response for the log line throws on null
readResponse(m) ==
  IF m.thrown = "none" /\ m.returned.kind = "null"
  THEN [throw(m, Error("TypeError", "")) EXCEPT !.returned = Undefined]
  ELSE m

HooksUrl(hookId) == [path |-> "hooks", hookId |-> hookId]

\* mutant: the request is made before the configuration is validated
createHook_RequestsFirst(m, config, fetched) ==
  LET invalid == validateHookConfig(config)
      m1 == makeApiRequest(m, "POST", HooksUrl(Undefined), config, fetched)
  IN  IF invalid # Valid
      THEN throw(m1, Error(invalid, ""))
      ELSE readResponse(m1)

createHook(m, config, fetched) ==
  LET invalid == validateHookConfig(config)
  IN  IF invalid # Valid
      THEN throw(m, Error(invalid, ""))
      ELSE readResponse(
             makeApiRequest(m, "POST", HooksUrl(Undefined), config, fetched))

\* mutant: the hooks are listed only over an established connection
getHooks_WhenConnected(m, fetched) ==
  IF m.connectionState # CONNECTED
  THEN throw(m, Error("Not connected", ""))
  ELSE readResponse(makeApiRequest(m, "GET", HooksUrl(Undefined), Undefined,
                                   fetched))

getHooks(m, fetched) ==
  readResponse(makeApiRequest(m, "GET", HooksUrl(Undefined), Undefined,
                              fetched))

getHook(m, hookId, fetched) ==
  LET invalid == validateHookId(hookId)
  IN  IF invalid # Valid
      THEN throw(m, Error(invalid, ""))
      ELSE readResponse(
             makeApiRequest(m, "GET", HooksUrl(hookId), Undefined, fetched))

updateHook(m, hookId, config, fetched) ==
  LET invalidId == validateHookId(hookId)
      invalidConfig == validatePartialHookConfig(config)
  IN  IF invalidId # Valid
      THEN throw(m, Error(invalidId, ""))
      ELSE IF invalidConfig # Valid
      THEN throw(m, Error(invalidConfig, ""))
      ELSE readResponse(
             makeApiRequest(m, "PUT", HooksUrl(hookId), config, fetched))

deleteHook(m, hookId, fetched) ==
  LET invalid == validateHookId(hookId)
  IN  IF invalid # Valid
      THEN throw(m, Error(invalid, ""))
      ELSE makeApiRequest(m, "DELETE", HooksUrl(hookId), Undefined, fetched)

\* ----------------------------------------------------------------- actions
\* An action is a guard (when the event loop can run the callback) and the
\* callback's effect on the state record.
Sockets == 1..Len(sockets)

\* Caller code, timers and socket I/O run only when no microtask is queued.
Idle == pendingCatch = "none"

ThrowOrNot == BOOLEAN

\* client.connect() called by the application
CanConnect(constructorThrows) ==
  /\ Idle
  /\ (StartsAttempt(Begin) /\ ~constructorThrows) => Len(sockets) < MaxSockets

Connect ==
  \E constructorThrows \in ThrowOrNot :
    /\ CanConnect(constructorThrows)
    /\ Commit(connect(Begin, "user", constructorThrows))

\* client.close() called by the application
Close ==
  /\ Idle
  /\ Commit(close(Begin))

OnHookCalled ==
  /\ Idle
  /\ \E h \in Callbacks \cup {NotAFunction} :
       /\ register(Begin, "event", h).handlers \in Registries
       /\ Commit(register(Begin, "event", h))

OnConnected ==
  /\ Idle
  /\ \E h \in Callbacks \cup {NotAFunction} :
       /\ register(Begin, "connection", h).handlers \in Registries
       /\ Commit(register(Begin, "connection", h))

OnError ==
  /\ Idle
  /\ \E h \in Callbacks \cup {NotAFunction} :
       /\ register(Begin, "error", h).handlers \in Registries
       /\ Commit(register(Begin, "error", h))

RemoveHandler ==
  /\ Idle
  /\ \E h \in Callbacks :
       /\ removeHandler(Begin, h).handlers \in Registries
       /\ Commit(removeHandler(Begin, h))

\* socket t reports 'open'
CanOpen(t) ==
  /\ Idle
  /\ sockets[t].listeners
  /\ sockets[t].ready = "connecting"

wsOpenEvent(m, t) == onOpen([m EXCEPT !.sockets[t].ready = "open"], t)

WsOpen == \E t \in Sockets : CanOpen(t) /\ Commit(wsOpenEvent(Begin, t))

\* socket t reports 'message'
CanMessage(t) ==
  /\ Idle
  /\ sockets[t].listeners
  /\ sockets[t].ready = "open"

WsMessage ==
  \E t \in Sockets, data \in Payloads :
    CanMessage(t) /\ Commit(handleMessage(Begin, data))

\* socket t reports 'error'; its 'close' event is still to come.  An aborted
\* handshake reports it in the turn of the callback that aborted it.
CanError(t) ==
  /\ sockets[t].listeners
  /\ \/ Idle /\ sockets[t].ready \in {"connecting", "open", "aborted"}
     \/ ~Idle /\ sockets[t].ready = "aborted"

wsErrorEvent(m, t) == onError([m EXCEPT !.sockets[t].ready = "closing"], t)

WsError == \E t \in Sockets : CanError(t) /\ Commit(wsErrorEvent(Begin, t))

\* socket t reports 'close' (client.ts:283).  After 'error' the library emits
\* it in the same turn, before the promise reactions; a mock may deliver it
\* in a later turn.
CanClose(t) ==
  /\ sockets[t].listeners
  /\ \/ Idle /\ sockets[t].ready \in {"open", "closing"}
     \/ ~Idle /\ sockets[t].ready = "closing"

wsCloseEvent(m, t, code, reason) ==
  handleDisconnect([m EXCEPT !.sockets[t].ready = "closed"], code, reason)

WsClose ==
  \E t \in Sockets, ev \in CloseEvents :
    CanClose(t) /\ Commit(wsCloseEvent(Begin, t, ev[1], ev[2]))

\* the 10 s timeout armed by socket t's connect() call expires
CanTimeout(t) ==
  /\ Idle
  /\ sockets[t].timeout

timeoutEvent(m, t) ==
  connectionTimeout([m EXCEPT !.sockets[t].timeout = FALSE], t)

ConnectionTimeout ==
  \E t \in Sockets : CanTimeout(t) /\ Commit(timeoutEvent(Begin, t))

\* the reconnection timer expires
CanReconnect(constructorThrows) ==
  /\ Idle
  /\ reconnectTimer
  /\ (StartsAttempt(Begin) /\ ~constructorThrows) => Len(sockets) < MaxSockets

ReconnectTimer ==
  \E constructorThrows \in ThrowOrNot :
    /\ CanReconnect(constructorThrows)
    /\ Commit(reconnectTimerFired(Begin, constructorThrows))

\* the queued .catch reaction of a failed reconnection attempt runs
catchEvent(m) == reconnectCatch([m EXCEPT !.pendingCatch = "none"],
                                m.pendingCatch)

RunCatch ==
  /\ ~Idle
  /\ Commit(catchEvent(Begin))

Next ==
  \/ Connect
  \/ Close
  \/ OnHookCalled
  \/ OnConnected
  \/ OnError
  \/ RemoveHandler
  \/ WsOpen
  \/ WsMessage
  \/ WsError
  \/ WsClose
  \/ ConnectionTimeout
  \/ ReconnectTimer
  \/ RunCatch

Spec == Init /\ [][Next]_vars

\* Timers expire, queued promise reactions run, and a transport that can
\* still fail or close eventually does so unless something else happens to it
\* first.  Nothing obliges the application to call anything, nor the server
\* to accept a handshake or to send a message.
Fairness ==
  /\ WF_vars(ConnectionTimeout)
  /\ WF_vars(ReconnectTimer)
  /\ WF_vars(RunCatch)
  /\ WF_vars(WsError)
  /\ WF_vars(WsClose)

LiveSpec == Spec /\ Fairness

HistorySpec == HistoryInit /\ [][Next]_vars

\* Arguments the application passes to the hook operations.
Name == Str(<<"h", "k">>)
Blank == Str(<<" ", " ">>)
Empty == Str(<<>>)
UrlHttps == Str(<<"h", "t", "t", "p", "s", ":", "/", "/", "a">>)
UrlHttp == Str(<<"h", "t", "t", "p", ":", "/", "/", "a">>)
UrlFtp == Str(<<"f", "t", "p", ":", "/", "/", "a">>)
UrlNone == Str(<<"n", "o", " ", "u", "r", "l">>)
Events == Arr(<<Str(<<"e">>), Str(<<"f">>)>>)
Headers == Obj([x |-> Str(<<"y">>)])
RetryPolicy == Obj([maxAttempts |-> Num(30), backoffMultiplier |-> Num(15)])

ValidHookConfigs ==
  { Obj([name |-> Name, url |-> UrlHttps]),
    Obj([name |-> Name, url |-> UrlHttp, events |-> Events,
         headers |-> Headers, retryPolicy |-> RetryPolicy]),
    Obj([name |-> Name, url |-> UrlHttps, events |-> Arr(<<>>),
         retryPolicy |-> Obj([maxAttempts |-> Num(0),
                              backoffMultiplier |-> Num(5)])]) }

\* one rule of the validator broken in each
InvalidOptionalFields ==
  { [events |-> Str(<<"e">>)],
    [events |-> Arr(<<Str(<<"e">>), Num(10)>>)],
    [headers |-> Null],
    [headers |-> Str(<<"y">>)],
    [headers |-> Obj([x |-> Num(10)])],
    [retryPolicy |-> Null],
    [retryPolicy |-> Num(10)],
    [retryPolicy |-> Obj([maxAttempts |-> Num(-10),
                          backoffMultiplier |-> Num(15)])],
    [retryPolicy |-> Obj([maxAttempts |-> Num(15),
                          backoffMultiplier |-> Num(15)])],
    [retryPolicy |-> Obj([backoffMultiplier |-> Num(15)])],
    [retryPolicy |-> Obj([maxAttempts |-> Num(30),
                          backoffMultiplier |-> Num(0)])],
    [retryPolicy |-> Obj([maxAttempts |-> Num(30),
                          backoffMultiplier |-> Str(<<"2">>)])] }

NotObjects == {Undefined, Null, Name, Num(10), Num(0)}

InvalidHookConfigs ==
  NotObjects
    \cup { Obj([url |-> UrlHttps]),
           Obj([name |-> Empty, url |-> UrlHttps]),
           Obj([name |-> Blank, url |-> UrlHttps]),
           Obj([name |-> Num(10), url |-> UrlHttps]),
           Obj([name |-> Name]),
           Obj([name |-> Name, url |-> Empty]),
           Obj([name |-> Name, url |-> Num(10)]),
           Obj([name |-> Name, url |-> UrlFtp]),
           Obj([name |-> Name, url |-> UrlNone]),
           Arr(<<Name>>) }
    \cup { Obj([name |-> Name, url |-> UrlHttps] @@ f) :
             f \in InvalidOptionalFields }

ValidPartialConfigs ==
  { Obj([name |-> Name]),
    Obj([url |-> UrlHttp]),
    Obj([events |-> Events, headers |-> Headers]),
    Obj([retryPolicy |-> RetryPolicy]) }

EmptyPartialConfig == Obj(<<>>)

InvalidPartialConfigs ==
  NotObjects
    \cup { EmptyPartialConfig,
           Arr(<<>>),
           Obj([name |-> Empty]),
           Obj([name |-> Blank]),
           Obj([name |-> Num(10)]),
           Obj([url |-> Num(10)]),
           Obj([url |-> UrlFtp]),
           Obj([url |-> UrlNone]) }
    \cup { Obj(f) : f \in InvalidOptionalFields }

ValidHookIds == {Str(<<"h", "1">>)}
InvalidHookIds == {Undefined, Empty, Blank, Num(10)}

HookConfigs == ValidHookConfigs \cup InvalidHookConfigs
PartialConfigs == ValidPartialConfigs \cup InvalidPartialConfigs
HookIds == ValidHookIds \cup InvalidHookIds

\* the hook operations, called by the application
CreateHook ==
  /\ Idle
  /\ \E config \in HookConfigs, fetched \in Fetched :
       Commit(createHook(Begin, config, fetched))

GetHooks ==
  /\ Idle
  /\ \E fetched \in Fetched : Commit(getHooks(Begin, fetched))

GetHook ==
  /\ Idle
  /\ \E hookId \in HookIds, fetched \in Fetched :
       Commit(getHook(Begin, hookId, fetched))

UpdateHook ==
  /\ Idle
  /\ \E hookId \in HookIds, config \in PartialConfigs, fetched \in Fetched :
       Commit(updateHook(Begin, hookId, config, fetched))

DeleteHook ==
  /\ Idle
  /\ \E hookId \in HookIds, fetched \in Fetched :
       Commit(deleteHook(Begin, hookId, fetched))

\* The application registers an error handler, connects, closes and manages
\* hooks while the transports open and close.
RestNext ==
  \/ OnError
  \/ Connect
  \/ Close
  \/ WsOpen
  \/ WsClose
  \/ CreateHook
  \/ GetHooks
  \/ GetHook
  \/ UpdateHook
  \/ DeleteHook

RestSpec == Init /\ [][RestNext]_vars

\* A connected client with any registry of up to MaxHandlers handlers, on
\* which the transport delivers messages and reports errors: the dispatcher
\* is exercised on every registry, the connection is left alone.
Entries == {Entry(type, h) : type \in HandlerTypes, h \in Callbacks}
AllRegistries == UNION {[1..n -> Entries] : n \in 0..MaxHandlers}

Constructed(configured, registry) ==
  [ options |-> configured, connectionState |-> DISCONNECTED,
    handlers |-> registry, clientId |-> "null", reconnectAttempts |-> 0,
    reconnectTimer |-> FALSE, isClosed |-> FALSE, ws |-> 0,
    sockets |-> <<>>, pendingCatch |-> "none", cycle |-> Unrecorded,
    emitted |-> <<>>, calls |-> <<>>, result |-> "none", thrown |-> "none",
    error |-> NoError, requests |-> <<>>, returned |-> [kind |-> "undefined"],
    observed |-> <<>> ]

\* handlers registered, connect() called, the socket has opened
DispatchInit ==
  \E configured \in [maxReconnectAttempts : 0..MaxConfiguredAttempts],
     registry \in AllRegistries :
    LET m == wsOpenEvent(
               connect(Constructed(configured, registry), "user", FALSE), 1)
    IN  /\ options = m.options
        /\ connectionState = m.connectionState
        /\ handlers = m.handlers
        /\ clientId = m.clientId
        /\ reconnectAttempts = m.reconnectAttempts
        /\ reconnectTimer = m.reconnectTimer
        /\ isClosed = m.isClosed
        /\ ws = m.ws
        /\ sockets = m.sockets
        /\ pendingCatch = m.pendingCatch
        /\ cycle = m.cycle
        /\ LoggerInit

DispatchNext ==
  \/ WsMessage
  \/ WsError

DispatchSpec == DispatchInit /\ [][DispatchNext]_vars

\* A connected client whose registry holds callbacks that register and remove
\* handlers while they are being invoked.  A dispatch that would grow the
\* registry beyond MaxHandlers entries is not delivered.
ReentrantEntries ==
  {Entry(type, h) : type \in HandlerTypes, h \in Reentrant \cup {"g", "gThrows"}}
ReentrantRegistries == UNION {[1..n -> ReentrantEntries] : n \in 0..MaxHandlers}

ReentrantInit ==
  \E registry \in ReentrantRegistries :
    LET configured == [maxReconnectAttempts |-> MaxConfiguredAttempts]
        m == wsOpenEvent(
               connect(Constructed(configured, registry), "user", FALSE), 1)
    IN  /\ options = m.options
        /\ connectionState = m.connectionState
        /\ handlers = m.handlers
        /\ clientId = m.clientId
        /\ reconnectAttempts = m.reconnectAttempts
        /\ reconnectTimer = m.reconnectTimer
        /\ isClosed = m.isClosed
        /\ ws = m.ws
        /\ sockets = m.sockets
        /\ pendingCatch = m.pendingCatch
        /\ cycle = m.cycle
        /\ LoggerInit

ReentrantMessage ==
  \E t \in Sockets, data \in Payloads :
    /\ CanMessage(t)
    /\ Len(handleMessage(Begin, data).handlers) <= MaxHandlers
    /\ Commit(handleMessage(Begin, data))

ReentrantError ==
  \E t \in Sockets :
    /\ CanError(t)
    /\ Len(wsErrorEvent(Begin, t).handlers) <= MaxHandlers
    /\ Commit(wsErrorEvent(Begin, t))

ReentrantSpec == ReentrantInit /\ [][ReentrantMessage \/ ReentrantError]_vars

\* The application calls connect() once and leaves the reconnecting to the
\* client; it may close it.  The history of the cycle is recorded, and the
\* retry budget goes one beyond MaxConfiguredAttempts, so that a counter can
\* be counted twice below the budget.
RetryBudgets == 0..(MaxConfiguredAttempts + 1)

RetryInit ==
  /\ options \in [maxReconnectAttempts : RetryBudgets]
  /\ connectionState = DISCONNECTED
  /\ handlers = <<>>
  /\ clientId = "null"
  /\ reconnectAttempts = 0
  /\ reconnectTimer = FALSE
  /\ isClosed = FALSE
  /\ ws = 0
  /\ sockets = <<>>
  /\ pendingCatch = "none"
  /\ cycle = NoCycle
  /\ LoggerInit

ConnectOnce ==
  /\ sockets = <<>>
  /\ Connect

RetryNext ==
  \/ ConnectOnce
  \/ Close
  \/ WsOpen
  \/ WsError
  \/ WsClose
  \/ ConnectionTimeout
  \/ ReconnectTimer
  \/ RunCatch

RetrySpec == RetryInit /\ [][RetryNext]_vars

\* the same with timers that expire, reactions that run and transports that
\* report what they have to report
RetryLiveSpec == RetrySpec /\ Fairness

\* The same client with error handlers registered before connect() is
\* called, on which the transport also delivers messages.
HandledRegistries ==
  { <<>>,
    <<Entry("error", "f")>>,
    <<Entry("error", "fThrows"), Entry("event", "g"), Entry("error", "g")>> }

HandledInit ==
  /\ options \in [maxReconnectAttempts : 0..MaxConfiguredAttempts]
  /\ connectionState = DISCONNECTED
  /\ handlers \in HandledRegistries
  /\ clientId = "null"
  /\ reconnectAttempts = 0
  /\ reconnectTimer = FALSE
  /\ isClosed = FALSE
  /\ ws = 0
  /\ sockets = <<>>
  /\ pendingCatch = "none"
  /\ cycle = Unrecorded
  /\ LoggerInit

HandledSpec == HandledInit /\ [][RetryNext \/ WsMessage]_vars

\* ------------------------------------------------------------ EventLogger
\* The logger's state as one record, as for the client: a method maps the
\* record at the start of a turn to the record at its end.  thrown is the
\* message of the Error the call rejects with, returned what it resolves to.
LoggerBegin ==
  [ eventLogger |-> eventLogger, files |-> files, now |-> now,
    inFlight |-> inFlight, logged |-> logged,
    thrown |-> "none", returned |-> <<>> ]

LoggerCommit(l) ==
  /\ eventLogger' = l.eventLogger
  /\ files' = l.files
  /\ now' = l.now
  /\ inFlight' = l.inFlight
  /\ logged' = l.logged
  /\ UNCHANGED clientVars

\* this.logFilePath.split(/[/\\]/).pop() || ''
basename(path) == IF path = <<>> THEN <<>> ELSE path[Len(path)]

Without(ops, i) == SubSeq(ops, 1, i - 1) \o SubSeq(ops, i + 1, Len(ops))

\* initialize() up to its await: an initialized logger answers at once, the
\* others store the new path and start fs.writeFile(path, '')
initialize(l) ==
  IF l.eventLogger.isInitialized
  THEN [l EXCEPT !.returned = basename(l.eventLogger.logFilePath)]
  ELSE LET filename == generateLogFilename(l.now)
           path == join(BaseDir, filename)
       IN  [l EXCEPT !.eventLogger.logFilePath = path,
                     !.inFlight = Append(@, [op |-> "writeFile",
                                             path |-> path,
                                             filename |-> filename])]

\* initialize() after its await: the file is there and empty, or the write
\* failed
writeFileSettled(l, i, failed) ==
  LET awaited == l.inFlight[i]
      l1 == [l EXCEPT !.inFlight = Without(@, i)]
  IN  IF failed
      THEN [l1 EXCEPT !.thrown = "Failed to create log file"]
      ELSE [l1 EXCEPT !.files[awaited.path] =
                         [exists |-> TRUE, lines |-> <<>>],
                      !.eventLogger.isInitialized = TRUE,
                      !.returned = awaited.filename]

\* JSON.stringify(loggedEvent): one line
LoggedEvent(clock, event) ==
  [timestamp |-> clock, eventId |-> event.eventId, hookId |-> event.hookId]

\* mutant: the event is appended whether or not the logger is initialized
logEvent_NoGuard(l, event) ==
  [l EXCEPT !.inFlight = Append(@, [op |-> "appendFile",
                                    path |-> l.eventLogger.logFilePath,
                                    line |-> LoggedEvent(l.now, event)]),
            !.logged.calls = @ + 1]

\* logEvent() up to its await
logEvent(l, event) ==
  IF ~l.eventLogger.isInitialized
  THEN [l EXCEPT !.thrown = "EventLogger not initialized"]
  ELSE [l EXCEPT !.inFlight = Append(@, [op |-> "appendFile",
                                         path |-> l.eventLogger.logFilePath,
                                         line |-> LoggedEvent(l.now, event)]),
                 !.logged.calls = @ + 1]

\* logEvent() after its await: the line is at the end of the file, which
\* fs.appendFile creates if it is not there, and the event is counted; or
\* the append failed
appendFileSettled(l, i, failed) ==
  LET awaited == l.inFlight[i]
      l1 == [l EXCEPT !.inFlight = Without(@, i)]
  IN  IF failed
      THEN [l1 EXCEPT !.thrown = "Failed to log event"]
      ELSE [l1 EXCEPT !.files[awaited.path] =
                         [exists |-> TRUE,
                          lines |-> Append(@.lines, awaited.line)],
                      !.eventLogger.eventCount = @ + 1,
                      !.logged.succeeded = Append(@, awaited.line.eventId)]

\* EventLogger.close()
loggerClose(l) == [l EXCEPT !.eventLogger.isInitialized = FALSE]

getEventCount(l) == l.eventLogger.eventCount

getLogFilePath(l) == l.eventLogger.logFilePath

\* The k-th logEvent call of the application logs the event numbered k.
NextEvent == [eventId |-> logged.calls + 1, hookId |-> "k1"]

\* pending: how many fs operations the application lets be in flight before
\* it calls the logger again (1: it awaits every call).
Awaits(pending) == Len(inFlight) < pending

Initialize(pending) ==
  /\ Awaits(pending)
  /\ LoggerCommit(initialize(LoggerBegin))

LogEvent(pending) ==
  /\ Awaits(pending)
  /\ logged.calls < MaxLogCalls
  /\ LoggerCommit(logEvent(LoggerBegin, NextEvent))

LoggerClose(pending) ==
  /\ Awaits(pending)
  /\ LoggerCommit(loggerClose(LoggerBegin))

FsFails == BOOLEAN

\* a fs operation in flight settles; those of concurrent calls in any order
WriteFileSettles ==
  \E i \in 1..Len(inFlight), failed \in FsFails :
    /\ inFlight[i].op = "writeFile"
    /\ LoggerCommit(writeFileSettled(LoggerBegin, i, failed))

AppendFileSettles ==
  \E i \in 1..Len(inFlight), failed \in FsFails :
    /\ inFlight[i].op = "appendFile"
    /\ LoggerCommit(appendFileSettled(LoggerBegin, i, failed))

\* a millisecond passes
Tick ==
  /\ now < MaxClock
  /\ now' = now + 1
  /\ UNCHANGED <<clientVars, eventLogger, files, inFlight, logged>>

\* the application calls the logger without waiting for its promises
LoggerNext ==
  \/ Initialize(MaxPending)
  \/ LogEvent(MaxPending)
  \/ LoggerClose(MaxPending + 1)
  \/ WriteFileSettles
  \/ AppendFileSettles
  \/ Tick

LoggerSpec == Init /\ [][LoggerNext]_vars

\* the application awaits every call before the next one
AwaitedNext ==
  \/ Initialize(1)
  \/ LogEvent(1)
  \/ LoggerClose(1)
  \/ WriteFileSettles
  \/ AppendFileSettles
  \/ Tick

AwaitedSpec == Init /\ [][AwaitedNext]_vars

\* ================================================================== claims

\* C1: once close() has been called, getConnectionState() returns 'closed' in
\* every later state, whatever callback runs afterwards.
C1_ClosedIsTerminal == isClosed => connectionState = CLOSED

\* C2: a close() call on a client that is already closed changes nothing:
\* state, counter, identity, timer, registry and every socket stay as they
\* are, no handler is invoked and nothing is emitted.
C2_CloseIdempotent == isClosed => close(Begin) = Begin

\* a closed client that has a socket and whose fields a second run of the
\* body of close() would overwrite
C2_Witness ==
  /\ isClosed
  /\ sockets # <<>>
  /\ handlers # <<>>
  /\ connectionState # CLOSED

\* C3: connect() on a closed client rejects with the client-closed error,
\* constructs no socket, arms no timer and leaves the state 'closed'.
C3_ConnectOnClosed ==
  isClosed =>
    \A constructorThrows \in ThrowOrNot :
      LET m == connect(Begin, "user", constructorThrows)
      IN  /\ m.result = "Cannot connect: client has been closed"
          /\ m.sockets = sockets
          /\ m.ws = ws
          /\ m.reconnectTimer = reconnectTimer
          /\ m.connectionState = CLOSED

\* C4: every connect() call that starts a connection attempt eventually
\* settles, whatever callbacks, timer expirations, close() and connect()
\* calls follow it.
C4_ConnectSettles ==
  \A t \in 1..MaxSockets :
    (t \in Sockets /\ sockets[t].promise = "pending")
      ~> (t \in Sockets /\ sockets[t].promise # "pending")

\* what emitError hands to the registered error handlers: one invocation of
\* each, in registration order
ErrorHandlerCalls(error) ==
  LET hs == HandlersOfType(handlers, "error")
  IN  [i \in 1..Len(hs) |-> Invocation("error", hs[i].handler, error)]

\* the close events of CloseEvents that are authentication failures: code
\* 1008 or 4001, or a reason containing "auth" or "invalid" in any case
AuthCloseEvents ==
  { <<1008, ReasonBye>>, <<4001, ReasonNone>>, <<1000, ReasonAuth>>,
    <<1001, ReasonInvalid>> }
OtherCloseEvents == CloseEvents \ AuthCloseEvents

\* C5: an authentication-failure close event received while 'connected'
\* leaves the client 'disconnected', hands exactly one authentication error
\* to the error handlers, leaves the reconnect counter as it was and arms no
\* reconnection timer.
C5_AuthClose ==
  \A t \in Sockets, ev \in AuthCloseEvents :
    (CanClose(t) /\ connectionState = CONNECTED) =>
      LET m == wsCloseEvent(Begin, t, ev[1], ev[2])
      IN  /\ m.connectionState = DISCONNECTED
          /\ m.emitted = <<AuthenticationFailed(ev[2])>>
          /\ m.calls = ErrorHandlerCalls(AuthenticationFailed(ev[2]))
          /\ m.reconnectAttempts = reconnectAttempts
          /\ ~m.reconnectTimer

\* C6 as claimed: for every valid configuration, a close event that is not an
\* authentication failure, received while 'connected', moves the client to
\* 'reconnecting' with a reconnection attempt scheduled.
C6_AsClaimed ==
  \A t \in Sockets, ev \in OtherCloseEvents :
    (CanClose(t) /\ connectionState = CONNECTED) =>
      LET m == wsCloseEvent(Begin, t, ev[1], ev[2])
      IN  m.connectionState = RECONNECTING /\ m.reconnectTimer

\* C6 as amended: a close event that is not an authentication failure,
\* received while 'connected', moves the client to 'reconnecting' with the
\* first attempt scheduled when maxReconnectAttempts >= 1; with
\* maxReconnectAttempts = 0 it moves the client to 'disconnected', emits the
\* maximum-attempts error and schedules nothing; once close() has been called
\* the event is ignored.
C6_OtherClose ==
  \A t \in Sockets, ev \in OtherCloseEvents :
    (CanClose(t) /\ connectionState = CONNECTED) =>
      LET m == wsCloseEvent(Begin, t, ev[1], ev[2])
      IN  CASE isClosed ->
                 /\ m.connectionState = connectionState
                 /\ m.reconnectTimer = reconnectTimer
                 /\ m.reconnectAttempts = reconnectAttempts
                 /\ m.emitted = <<>>
            [] ~isClosed /\ options.maxReconnectAttempts >= 1 ->
                 /\ m.connectionState = RECONNECTING
                 /\ m.reconnectTimer
                 /\ m.reconnectAttempts = 1
                 /\ m.emitted = <<>>
            [] OTHER ->
                 /\ m.connectionState = DISCONNECTED
                 /\ ~m.reconnectTimer
                 /\ m.reconnectAttempts = 0
                 /\ m.emitted = <<MaxAttemptsError(0)>>

\* a connected client, not closed, whose open socket can report 'close'
C6_Witness ==
  /\ connectionState = CONNECTED
  /\ ~isClosed
  /\ ws # 0
  /\ CanClose(ws)
  /\ sockets[ws].ready = "open"

\* C7: for a configured maximum N >= 1, a reconnection cycle emits at most
\* one terminal reconnection error and schedules and starts at most N
\* attempts; once N scheduled attempts in a row have failed the client is
\* 'disconnected' with exactly one terminal error emitted and no timer armed.
C7_RetryBudget ==
  ( /\ cycle.recorded
    /\ ~cycle.user
    /\ ~isClosed
    /\ options.maxReconnectAttempts >= 1 ) =>
      /\ cycle.terminal <= 1
      /\ cycle.scheduled <= options.maxReconnectAttempts
      /\ cycle.started <= options.maxReconnectAttempts
      /\ (cycle.failed = options.maxReconnectAttempts /\ Idle) =>
           /\ connectionState = DISCONNECTED
           /\ cycle.terminal = 1
           /\ ~reconnectTimer

\* C8: when a socket reports 'open', the reconnect counter is 0 afterwards,
\* no reconnection timer is pending, the state is 'connected' and the
\* connect() call that made the socket is resolved.
C8_OnOpen ==
  \A t \in Sockets :
    CanOpen(t) =>
      LET m == wsOpenEvent(Begin, t)
      IN  /\ m.reconnectAttempts = 0
          /\ ~m.reconnectTimer
          /\ m.connectionState = CONNECTED
          /\ m.sockets[t].promise = "resolved"

\* C9: no reconnection timer is pending while the client is 'connected' or
\* has been closed, and on a closed client the reconnection timer callback
\* starts no connection attempt.
C9_NoStrayTimer ==
  /\ (connectionState = CONNECTED \/ isClosed) => ~reconnectTimer
  /\ \A t \in Sockets : CanOpen(t) => ~wsOpenEvent(Begin, t).reconnectTimer
  /\ Idle => ~close(Begin).reconnectTimer
  /\ isClosed =>
       \A constructorThrows \in ThrowOrNot :
         LET m == reconnectTimerFired(Begin, constructorThrows)
         IN  m.sockets = sockets /\ m.connectionState = connectionState

\* a reconnection timer is pending while a handshake is in progress: 'open'
\* and close() both have a timer to cancel
C9_Witness ==
  /\ reconnectTimer
  /\ ~isClosed
  /\ Idle
  /\ \E t \in Sockets : CanOpen(t)

\* a callback that invokes no handler and leaves state, identity and counter
Quiet(m) ==
  /\ m.calls = <<>>
  /\ m.connectionState = connectionState
  /\ m.clientId = clientId
  /\ m.reconnectAttempts = reconnectAttempts

\* C10: after close() no callback is processed: no socket event, timer expiry
\* or promise reaction invokes a handler or changes the state, the identity
\* or the reconnect counter.
C10_NoCallbacksAfterClose ==
  isClosed =>
    /\ \A t \in Sockets :
         /\ CanOpen(t) => Quiet(wsOpenEvent(Begin, t))
         /\ CanMessage(t) => \A data \in Payloads :
                               Quiet(handleMessage(Begin, data))
         /\ CanError(t) => Quiet(wsErrorEvent(Begin, t))
         /\ CanClose(t) => \A ev \in CloseEvents :
                             Quiet(wsCloseEvent(Begin, t, ev[1], ev[2]))
         /\ CanTimeout(t) => Quiet(timeoutEvent(Begin, t))
    /\ \A constructorThrows \in ThrowOrNot :
         CanReconnect(constructorThrows) =>
           Quiet(reconnectTimerFired(Begin, constructorThrows))
    /\ ~Idle => Quiet(catchEvent(Begin))

\* one invocation of each registered handler of a type, in registration order
CallsOf(type, arg) ==
  LET hs == HandlersOfType(handlers, type)
  IN  [i \in 1..Len(hs) |-> Invocation(type, hs[i].handler, arg)]

\* the persistent fields of the client are as they were before the callback
SameClient(m) ==
  /\ m.connectionState = connectionState
  /\ m.clientId = clientId
  /\ m.reconnectAttempts = reconnectAttempts
  /\ m.reconnectTimer = reconnectTimer
  /\ m.handlers = handlers
  /\ m.isClosed = isClosed
  /\ m.ws = ws

\* C11: dispatching one webhook-event message invokes every registered event
\* handler once per registration, in registration order, with the full event
\* record; a handler that throws stops no later handler and no exception
\* leaves the message callback.
C11_EventDispatch ==
  \A t \in Sockets :
    CanMessage(t) =>
      LET m == handleMessage(Begin, RawEvent)
      IN  /\ m.calls = CallsOf("event", JSONparse(RawEvent))
          /\ m.thrown = "none"
          /\ m.emitted = <<>>

\* three event handlers, the first of which throws, on a client that has
\* been given its identity and whose socket can deliver the event
C11_Witness ==
  /\ \E t \in Sockets : CanMessage(t)
  /\ clientId # "null"
  /\ LET hs == HandlersOfType(handlers, "event")
     IN  /\ Len(hs) = 3
         /\ Throws(hs[1].handler)
         /\ ~Throws(hs[2].handler)
         /\ ~Throws(hs[3].handler)

\* C12: a message that cannot be decoded produces exactly one error emission,
\* 'Message parsing failed', invokes no event or connection handler, leaves
\* state, identity and counter as they were, and every later message is
\* dispatched as if the malformed one had not arrived.
C12_MalformedMessage ==
  \A t \in Sockets :
    CanMessage(t) =>
      LET m == handleMessage(Begin, RawMalformed)
          after == [m EXCEPT !.emitted = <<>>, !.calls = <<>>,
                             !.observed = <<>>]
      IN  /\ m.emitted = <<ParseError>>
          /\ m.calls = CallsOf("error", ParseError)
          /\ m.thrown = "none"
          /\ SameClient(m)
          /\ \A data \in Payloads \ {RawMalformed} :
               handleMessage(after, data) = handleMessage(Begin, data)

\* handlers of all three types are registered, messages have been delivered
\* and the socket can deliver the malformed text
C12_Witness ==
  /\ \E t \in Sockets : CanMessage(t)
  /\ clientId = "c1"
  /\ \A type \in HandlerTypes : HandlersOfType(handlers, type) # <<>>

\* C13: emitError never throws and emits nothing further: without error
\* handlers the error is dropped, otherwise every registered error handler is
\* invoked once per registration, in registration order, whether or not an
\* earlier one threw.
C13_EmitError ==
  \A error \in {TransportError, ParseError, MaxAttemptsError(1)} :
    LET m == emitError(Begin, error)
    IN  /\ m.thrown = "none"
        /\ m.emitted = <<error>>
        /\ m.calls = CallsOf("error", error)
        /\ (HandlersOfType(handlers, "error") = <<>> => m.calls = <<>>)
        /\ SameClient(m)

\* two error handlers or more, the first of which throws, on a connected
\* client whose transport has reported an error
C13_Witness ==
  /\ \E t \in Sockets : sockets[t].ready = "closing"
  /\ connectionState = CONNECTED
  /\ LET hs == HandlersOfType(handlers, "error")
     IN  Len(hs) >= 2 /\ Throws(hs[1].handler) /\ ~Throws(hs[2].handler)

\* C14: getClientId() is non-null only in state 'connected' and only after a
\* connection confirmation processed since the transport last opened: every
\* 'open' leaves it null, every disconnect and close() leave it null.
C14_IdentityOnlyWhenConnected ==
  /\ getClientId(Begin) # "null" => getConnectionState(Begin) = CONNECTED
  /\ \A t \in Sockets :
       /\ CanOpen(t) => getClientId(wsOpenEvent(Begin, t)) = "null"
       /\ (CanClose(t) /\ ~isClosed) =>
            \A ev \in CloseEvents :
              getClientId(wsCloseEvent(Begin, t, ev[1], ev[2])) = "null"
  /\ Idle => getClientId(close(Begin)) = "null"
  /\ isClosed => getClientId(Begin) = "null"

\* C15: isConnected() is true exactly when the state is 'connected' and
\* close() has never been called; once close() has been called it stays
\* called, so isConnected() is false in every later state.
C15_IsConnected ==
  /\ [](isConnected(Begin) <=>
          (getConnectionState(Begin) = CONNECTED /\ ~isClosed))
  /\ [][isClosed => isClosed' /\ ~isConnected(Begin)]_vars

\* close() has been called and the state is 'connected' all the same
C15_Witness == isClosed /\ connectionState = CONNECTED

\* C16: connect() called while the state is 'connected' resolves at once and
\* does nothing: no new transport, no timer, state, identity, counter and
\* transports as they were.
C16_ConnectWhenConnected ==
  (connectionState = CONNECTED /\ Idle) =>
    \A constructorThrows \in ThrowOrNot :
      LET m == connect(Begin, "user", constructorThrows)
      IN  /\ m.result = "resolved"
          /\ m.sockets = sockets
          /\ SameClient(m)

\* C17: an authentication failure leaves the client 'disconnected' and not
\* closed; connect() then starts a new connection attempt on a new transport,
\* and when that transport opens the client is 'connected'.
C17_ConnectAfterAuthFailure ==
  \A t \in Sockets, ev \in AuthCloseEvents :
    (CanClose(t) /\ Idle /\ ~isClosed) =>
      LET failed == wsCloseEvent(Begin, t, ev[1], ev[2])
          again == connect(failed, "user", FALSE)
          new == Len(again.sockets)
          opened == wsOpenEvent(again, new)
      IN  /\ failed.connectionState = DISCONNECTED
          /\ ~failed.isClosed
          /\ again.result = "pending"
          /\ again.connectionState = CONNECTING
          /\ new = Len(sockets) + 1
          /\ again.ws = new
          /\ again.sockets[new].ready = "connecting"
          /\ opened.connectionState = CONNECTED
          /\ opened.sockets[new].promise = "resolved"
          /\ isConnected(opened)

\* a connected client that has its identity and whose socket can report the
\* authentication failure
C17_Witness ==
  /\ isConnected(Begin)
  /\ clientId # "null"
  /\ ws # 0
  /\ CanClose(ws)
  /\ Idle

\* a hook operation that failed before any HTTP request was issued
FailedUnsent(m) == m.thrown = "Error" /\ m.requests = <<>>

\* C18: createHook with an invalid configuration, getHook, updateHook and
\* deleteHook with an invalid hook id, and updateHook with an invalid or
\* empty partial configuration fail without issuing an HTTP request.
C18_ValidateBeforeRequest ==
  \A fetched \in Fetched :
    /\ \A config \in InvalidHookConfigs :
         FailedUnsent(createHook(Begin, config, fetched))
    /\ \A hookId \in InvalidHookIds :
         /\ FailedUnsent(getHook(Begin, hookId, fetched))
         /\ FailedUnsent(deleteHook(Begin, hookId, fetched))
         /\ \A config \in PartialConfigs :
              FailedUnsent(updateHook(Begin, hookId, config, fetched))
    /\ \A hookId \in ValidHookIds, config \in InvalidPartialConfigs :
         FailedUnsent(updateHook(Begin, hookId, config, fetched))

\* a connected client with an error handler, on which updateHook is given
\* the empty update and createHook a blank name while the server would answer
C18_Witness ==
  /\ Idle
  /\ connectionState = CONNECTED
  /\ handlers # <<>>
  /\ \E hookId \in ValidHookIds, fetched \in Fetched :
       /\ fetched.kind = "response"
       /\ updateHook(Begin, hookId, EmptyPartialConfig, fetched).error.text
            = "At least one field must be provided for update"
       /\ createHook(Begin, Obj([name |-> Blank, url |-> UrlHttps]),
                     fetched).error.text = "Hook name cannot be empty"

\* what the transport returned, for the cases the claim lists
Readable == {f \in Fetched : f.body \notin {BodyUnreadable, BodyEmpty}}
Methods == {"GET", "POST", "PUT"}

\* C19: a REST call ends in the one outcome that what the transport returned
\* determines: the parsed body on 2xx with valid JSON; 'API request failed'
\* with the status on non-2xx; 'Network error during API request' when, and
\* only when, no response was received; 'Invalid JSON response from API' on
\* 2xx with a malformed body.
C19_RestOutcome ==
  \A method \in Methods, fetched \in Readable :
    LET m == makeApiRequest(Begin, method, HooksUrl(Undefined),
                            Obj([name |-> Name]), fetched)
        parsed == JSONparse(fetched.body)
    IN  /\ Len(m.requests) = 1
        /\ (m.error.text = "Network error during API request")
             <=> (fetched.kind = "rejects")
        /\ (fetched.kind = "response" /\ ok(fetched) /\ parsed # SyntaxError)
             => (m.thrown = "none" /\ m.returned = parsed)
        /\ (fetched.kind = "response" /\ ~ok(fetched))
             => /\ m.thrown = "Error"
                /\ m.error.text = "API request failed"
                /\ m.error.hasStatus
                /\ m.error.status = fetched.status
        /\ (fetched.kind = "response" /\ ok(fetched) /\ parsed = SyntaxError)
             => /\ m.thrown = "Error"
                /\ m.error.text = "Invalid JSON response from API"

\* every field of the client and every socket as before, nothing emitted and
\* no handler called
Untouched(m) ==
  /\ SameClient(m)
  /\ m.sockets = sockets
  /\ m.pendingCatch = pendingCatch
  /\ m.calls = <<>>
  /\ m.emitted = <<>>

ClientKeyGood == Str([i \in 1..12 |-> "k"])
InvalidClientKeys ==
  { Undefined, Empty, Num(10), Str([i \in 1..12 |-> " "]),
    Str(<<"s", "h", "o", "r", "t">>) }
InvalidOptions ==
  { Obj([wsUrl |-> UrlHttps]), Obj([wsUrl |-> UrlNone]),
    Obj([wsUrl |-> Num(10)]), Obj([apiUrl |-> UrlFtp]),
    Obj([apiUrl |-> Blank]),
    Obj([maxReconnectAttempts |-> Num(-10)]),
    Obj([maxReconnectAttempts |-> Num(15)]),
    Obj([maxReconnectAttempts |-> Name]),
    Obj([reconnectDelay |-> Num(990)]),
    Obj([reconnectDelay |-> Num(1005)]),
    Obj([logLevel |-> Name]) }

\* C20: a validation failure (constructor arguments, handler registration,
\* hook id, hook configuration) is raised to the caller only: no error
\* handler is invoked, nothing is emitted, and state, counter, identity,
\* timer and registry are as they were.
C20_ValidationAtCallSite ==
  /\ \A clientKey \in InvalidClientKeys \cup {ClientKeyGood},
        opts \in InvalidOptions \cup {Obj(<<>>)} :
       (clientKey \in InvalidClientKeys \/ opts \in InvalidOptions) =>
         LET this == constructor(clientKey, opts)
         IN  this.thrown = "Error" /\ this.calls = <<>> /\ this.emitted = <<>>
  /\ \A type \in HandlerTypes :
       LET m == register(Begin, type, NotAFunction)
       IN  m.result = "must be a function" /\ Untouched(m)
  /\ \A fetched \in Fetched :
       /\ \A config \in InvalidHookConfigs :
            LET m == createHook(Begin, config, fetched)
            IN  m.thrown = "Error" /\ Untouched(m)
       /\ \A hookId \in InvalidHookIds :
            /\ LET m == getHook(Begin, hookId, fetched)
               IN  m.thrown = "Error" /\ Untouched(m)
            /\ LET m == deleteHook(Begin, hookId, fetched)
               IN  m.thrown = "Error" /\ Untouched(m)
       /\ \A hookId \in HookIds, config \in InvalidPartialConfigs :
            LET m == updateHook(Begin, hookId, config, fetched)
            IN  m.thrown = "Error" /\ Untouched(m)

\* error handlers are registered on a client that is reconnecting with its
\* timer armed, and the caller passes a value that is not a function
C20_Witness ==
  /\ Idle
  /\ HandlersOfType(handlers, "error") # <<>>
  /\ connectionState = RECONNECTING
  /\ reconnectTimer
  /\ reconnectAttempts > 0
  /\ register(Begin, "error", NotAFunction).result = "must be a function"

\* C21: registering a value that is not a function with onHookCalled,
\* onConnected or onError fails and leaves the registry as it was;
\* removeHandler with a callback that is not registered (or with a value that
\* is not a function) does not throw and leaves the registry as it was.
C21_RegistryUnchanged ==
  /\ \A type \in HandlerTypes :
       LET m == register(Begin, type, NotAFunction)
       IN  m.result = "must be a function" /\ m.handlers = handlers
  /\ \A h \in Callbacks \cup {NotAFunction} :
       (\A i \in 1..Len(handlers) : handlers[i].handler # h) =>
         LET m == removeHandler(Begin, h)
         IN  /\ m.thrown = "none"
             /\ m.result = "none"
             /\ m.handlers = handlers

\* three handlers are registered on a connected client, and a callback that
\* was never registered is there to be removed
C21_Witness ==
  /\ Idle
  /\ Len(handlers) = 3
  /\ connectionState = CONNECTED
  /\ \E h \in Callbacks : \A i \in 1..Len(handlers) : handlers[i].handler # h

\* payloads that JSON.parse decodes to something that is neither a
\* connection confirmation nor a webhook event
OtherPayloads ==
  {data \in Payloads \cup {RawString} : JSONparse(data) # SyntaxError}
    \ {RawConnected, RawEvent}

\* C22: every inbound payload that decodes but is neither a connection
\* confirmation nor a webhook event, whatever value it decodes to, is
\* ignored: no event, connection or error handler is invoked, nothing is
\* thrown, and state and identity are as they were.
C22_UnknownIgnored ==
  \A t \in Sockets :
    CanMessage(t) =>
      \A data \in OtherPayloads :
        LET m == handleMessage(Begin, data)
        IN  /\ m.calls = <<>>
            /\ m.thrown = "none"
            /\ SameClient(m)

\* C23: on a connection-confirmation message the identity is stored before
\* any connection handler runs, so that each of them observes getClientId()
\* equal to the confirmed identity; every registered connection handler is
\* then invoked once per registration, in registration order, with the full
\* confirmation record, also after an earlier one threw; nothing leaves the
\* message callback.
C23_ConfirmationDispatch ==
  \A t \in Sockets :
    CanMessage(t) =>
      LET event == JSONparse(RawConnected)
          m == handleMessage(Begin, RawConnected)
          made == SelectSeq(m.calls, LAMBDA c : c.type = "connection")
      IN  /\ getClientId(m) = event.clientId
          /\ made = CallsOf("connection", event)
          /\ \A i \in 1..Len(m.calls) :
               m.calls[i].type = "connection" =>
                 m.observed[i] = event.clientId
          /\ \A i \in 1..Len(m.calls) : m.calls[i].type # "event"
          /\ m.thrown = "none"

\* a confirmation has been dispatched, and another can arrive on a client
\* with an error handler and two connection handlers of which the first
\* throws
C23_Witness ==
  /\ \E t \in Sockets : CanMessage(t)
  /\ clientId = "c1"
  /\ LET hs == HandlersOfType(handlers, "connection")
     IN  /\ Len(hs) = 2
         /\ Throws(hs[1].handler)
         /\ ~Throws(hs[2].handler)
  /\ HandlersOfType(handlers, "error") # <<>>

\* how a hook operation ended: what it threw or returned, and the requests
\* it issued
Outcome(m) == <<m.thrown, m.error, m.returned, m.requests>>

\* a client of the same options on which nothing has been called
Fresh == Constructed(options, <<>>)

\* the operation left the client alone and ended as it does on a client
\* that never connected
Independent(m, fresh) == Untouched(m) /\ Outcome(m) = Outcome(fresh)

\* C24: createHook, getHooks, getHook, updateHook and deleteHook are
\* permitted in every connection state, 'closed' included: they end as they
\* do on a client that never connected, and whether they succeed or fail
\* they leave connection state, reconnect counter, identity, reconnection
\* timer, transports and handler registry as they were.
C24_HooksIndependent ==
  Idle =>
    \A fetched \in Fetched :
      /\ \A config \in HookConfigs :
           Independent(createHook(Begin, config, fetched),
                       createHook(Fresh, config, fetched))
      /\ Independent(getHooks(Begin, fetched), getHooks(Fresh, fetched))
      /\ \A hookId \in HookIds :
           /\ Independent(getHook(Begin, hookId, fetched),
                          getHook(Fresh, hookId, fetched))
           /\ Independent(deleteHook(Begin, hookId, fetched),
                          deleteHook(Fresh, hookId, fetched))
      /\ \A hookId \in ValidHookIds, config \in PartialConfigs :
           Independent(updateHook(Begin, hookId, config, fetched),
                       updateHook(Fresh, hookId, config, fetched))

\* a client that was connected, has an error handler and has been closed,
\* on which the hooks are listed and the server answers
C24_Witness ==
  /\ connectionState = CLOSED
  /\ isClosed
  /\ handlers # <<>>
  /\ \E t \in Sockets : sockets[t].ready = "closing"
  /\ \E fetched \in Fetched :
       /\ fetched.kind = "response"
       /\ ok(fetched)
       /\ getHooks(Begin, fetched).returned = JSONparse(BodyHook)

\* C25: logEvent on a logger that is not initialized (never initialized, or
\* closed since) fails with 'EventLogger not initialized', writes nothing to
\* any file, starts no write, and leaves the event count as it was.
C25_LogEventUninitialized ==
  ~eventLogger.isInitialized =>
    LET l == logEvent(LoggerBegin, NextEvent)
    IN  /\ l.thrown = "EventLogger not initialized"
        /\ l.files = files
        /\ l.inFlight = inFlight
        /\ getEventCount(l) = getEventCount(LoggerBegin)

\* the logger was initialized, logged an event into its file and was closed
C25_Witness ==
  /\ ~eventLogger.isInitialized
  /\ getEventCount(LoggerBegin) > 0
  /\ files[getLogFilePath(LoggerBegin)].lines # <<>>
  /\ inFlight = <<>>

\* the event ids of the logEvent calls whose append succeeded, in call order
SucceededInCallOrder ==
  LET done == {logged.succeeded[i] : i \in 1..Len(logged.succeeded)}
      Ordered(ids) == \A i, j \in 1..Len(ids) : i < j => ids[i] < ids[j]
  IN  CHOOSE ids \in [1..Cardinality(done) -> done] :
        Ordered(ids) /\ {ids[i] : i \in 1..Len(ids)} = done

\* the lines of the logger's file, by the event each holds
LinesOfLogFile ==
  LET path == getLogFilePath(LoggerBegin)
      lines == IF path = <<>> THEN <<>> ELSE files[path].lines
  IN  [i \in 1..Len(lines) |-> lines[i].eventId]

\* C26: after any sequence of EventLogger operations getEventCount() is the
\* number of logEvent calls whose append succeeded, the log file holds one
\* line per such call, in call order, and initialize() on an initialized
\* logger returns the filename of that file without creating or truncating
\* a file.
C26_CountAndLines ==
  /\ getEventCount(LoggerBegin) = Len(logged.succeeded)
  /\ LinesOfLogFile = SucceededInCallOrder
  /\ eventLogger.isInitialized =>
       LET l == initialize(LoggerBegin)
       IN  /\ l.thrown = "none"
           /\ l.returned = basename(getLogFilePath(LoggerBegin))
           /\ l.files = files
           /\ l.inFlight = inFlight

\* C27: a failed scheduled reconnection attempt is counted once.  The first
\* timer of a cycle is scheduled by the disconnect and every later one by
\* the failure of the attempt that the timer before it started, so that the
\* timers scheduled, and the counter, never exceed the attempts started by
\* more than one, also when the transport of the failed attempt reports an
\* error and a close event or is closed by the connection timeout.
C27_CountedOnce ==
  /\ cycle.scheduled <= cycle.started + 1
  /\ reconnectAttempts <= cycle.started + 1

\* C28: an authentication-failure close received by a client that is not
\* closed leaves no reconnection timer pending, and the promise reaction of
\* the reconnection attempt it ends schedules none: no connection attempt
\* follows until the caller calls connect().
C28_NoRetryAfterAuthFailure ==
  \A t \in Sockets, ev \in AuthCloseEvents :
    (CanClose(t) /\ ~isClosed) =>
      LET failed == wsCloseEvent(Begin, t, ev[1], ev[2])
      IN  /\ ~failed.reconnectTimer
          /\ failed.pendingCatch # "none" => ~catchEvent(failed).reconnectTimer

\* the retry scheduler found the budget spent: 'disconnected', one 'Maximum
\* reconnection attempts (N) reached' error handed to every error handler,
\* no timer scheduled, the counter as it was
GaveUp(m) ==
  LET error == MaxAttemptsError(options.maxReconnectAttempts)
  IN  /\ m.connectionState = DISCONNECTED
      /\ m.emitted = <<error>>
      /\ m.calls = CallsOf("error", error)
      /\ m.reconnectTimer = reconnectTimer
      /\ m.reconnectAttempts = reconnectAttempts

\* C29: when the retry scheduler runs, on a client that is not closed, with
\* the reconnect counter equal to the configured maximum, it sets the state
\* to 'disconnected', emits exactly one 'Maximum reconnection attempts (N)
\* reached' error, schedules no timer and leaves the counter as it was; so
\* does a close event that is not an authentication failure, which runs it.
C29_BudgetExhausted ==
  (~isClosed /\ reconnectAttempts = options.maxReconnectAttempts) =>
    /\ GaveUp(attemptReconnection(Begin))
    /\ \A t \in Sockets, ev \in OtherCloseEvents :
         CanClose(t) => GaveUp(wsCloseEvent(Begin, t, ev[1], ev[2]))

\* the budget of a client with an error handler is spent and the socket of
\* its last attempt is about to report its close
C29_Witness ==
  /\ ~isClosed
  /\ options.maxReconnectAttempts > 0
  /\ reconnectAttempts = options.maxReconnectAttempts
  /\ HandlersOfType(handlers, "error") # <<>>
  /\ \E t \in Sockets : CanClose(t) /\ sockets[t].reaction = "none"
                          /\ sockets[t].promise = "rejected"

\* the reconnect counter lies between 0 and the configured maximum and equals
\* the number of reconnection timers armed since the last 'open' (or since
\* construction)
CounterMatchesTimers ==
  /\ 0 <= reconnectAttempts
  /\ reconnectAttempts <= options.maxReconnectAttempts
  /\ cycle.scheduled = reconnectAttempts

\* C30 as stated: in every reachable state the reconnect counter lies between
\* 0 and the configured maximum and equals the number of reconnection timers
\* scheduled since the last successful open (or since construction).
\* close() (client.ts:368) sets the counter to 0 without an 'open', so a
\* client closed during a reconnection cycle has armed more timers than the
\* counter says.
C30_AsClaimed == CounterMatchesTimers

\* C30: in every reachable state of a client on which close() has not been
\* called, the reconnect counter lies between 0 and the configured maximum
\* and equals the number of reconnection timers scheduled since the last
\* successful open (or since construction).
C30_CounterMatchesTimers == ~isClosed => CounterMatchesTimers

\* a second reconnection timer of the cycle is pending on an open client
C30_Witness ==
  /\ ~isClosed
  /\ reconnectTimer
  /\ reconnectAttempts >= 2
  /\ cycle.scheduled = reconnectAttempts

\* base delays validateOptions accepts: the least, one whose jittered first
\* delay can fall below 100 ms, and the default
BaseDelays ==
  {MinReconnectDelay, MinReconnectDelay + 15, 10 * MinReconnectDelay}

\* |n|
Abs(n) == IF n < 0 THEN 0 - n ELSE n

\* C31: for every base delay b >= 100, when the retry scheduler arms a timer
\* with the counter at k >= 1, the delay is max(100, b*2^(k-1) + j) with
\* |j| <= 25% of b*2^(k-1): it is never below 100, it differs from the
\* exponential value by at most 25% unless it was clamped, and it is clamped
\* only when the jittered value is at or below 100 (the clamp comes after
\* the jitter).
C31_ReconnectDelay ==
  (~isClosed /\ reconnectAttempts < options.maxReconnectAttempts) =>
    \A b \in BaseDelays, random \in Randoms :
      LET k == attemptReconnection(Begin).reconnectAttempts
          e == b * pow(2, k - 1) * DelayScale
          floor == MinDelay * DelayScale
          delay == finalDelay(b, k, random)
      IN  /\ attemptReconnection(Begin).reconnectTimer
          /\ k >= 1
          /\ delay >= floor
          /\ delay > floor => Abs(delay - e) * 4 <= e
          /\ delay = floor => e + jitter(e, random) <= floor
          /\ Abs(jitter(e, random)) * 4 <= e

\* the first timer of a cycle is about to be armed, and for some base delay
\* and draw the jittered value is below 100 ms
C31_Witness ==
  /\ ~isClosed
  /\ connectionState = CONNECTED
  /\ reconnectAttempts = 0
  /\ options.maxReconnectAttempts >= 1
  /\ \E b \in BaseDelays, random \in Randoms :
       LET e == exponentialDelay(b, 1)
       IN  /\ e + jitter(e, random) < MinDelay * DelayScale
           /\ finalDelay(b, 1, random) = MinDelay * DelayScale

\* the attempt that made socket t is still connecting: the handshake is in
\* progress and its connect() promise is not settled
StillConnecting(t) ==
  /\ sockets[t].ready = "connecting"
  /\ sockets[t].promise = "pending"

\* C32: when the connection timeout of an attempt expires while that attempt
\* is still connecting, the attempt's transport is forced closed, the state
\* becomes 'disconnected' and the attempt's connect() rejects with
\* 'Connection timeout'; for an attempt that has opened the expiry has no
\* effect (its timeout was cleared and cannot expire).
C32_ConnectionTimeout ==
  \A t \in Sockets :
    /\ (CanTimeout(t) /\ StillConnecting(t)) =>
         LET after == timeoutEvent(Begin, t)
         IN  /\ after.sockets[t].ready = "aborted"
             /\ after.connectionState = DISCONNECTED
             /\ after.sockets[t].promise = "rejected"
             /\ sockets[t].reaction = "catch" =>
                  after.pendingCatch = RejectedTimeout
    /\ sockets[t].ready = "open" => ~sockets[t].timeout

\* C33: a transport error reported while the state is 'connecting' moves the
\* client to 'disconnected' and rejects the pending connect(), that of the
\* transport reporting the error, with 'WebSocket connection failed', and
\* invokes no error handler.
C33_ErrorWhileConnecting ==
  \A t \in Sockets :
    (CanError(t) /\ connectionState = CONNECTING) =>
      LET after == wsErrorEvent(Begin, t)
      IN  /\ after.connectionState = DISCONNECTED
          /\ after.calls = <<>>
          /\ after.emitted = <<>>
          /\ sockets[t].promise = "pending"
          /\ after.sockets[t].promise = "rejected"
          /\ sockets[t].reaction = "catch" =>
               after.pendingCatch = RejectedWsError

\* no retry loop was started: 'disconnected', the counter as it was, no
\* reconnection timer pending
NoRetryStarted(m) ==
  /\ m.connectionState = DISCONNECTED
  /\ m.reconnectAttempts = reconnectAttempts
  /\ ~m.reconnectTimer

\* C34: a connect() called by the application that fails, by a transport
\* error or by the connection timeout, leaves the client 'disconnected' with
\* the reconnect counter unchanged and no reconnection timer pending, and so
\* does the close event the failed transport reports afterwards.  (The first
\* socket of a client is always that of a connect() call by the application.)
C34_FailedConnectNoRetry ==
  (Len(sockets) = 1 /\ ~isClosed) =>
    /\ (CanError(1) /\ StillConnecting(1)) =>
         NoRetryStarted(wsErrorEvent(Begin, 1))
    /\ (CanTimeout(1) /\ StillConnecting(1)) =>
         NoRetryStarted(timeoutEvent(Begin, 1))
    /\ (CanClose(1) /\ sockets[1].promise = "rejected") =>
         \A ev \in CloseEvents :
           NoRetryStarted(wsCloseEvent(Begin, 1, ev[1], ev[2]))

\* C35: once an attempt has ended (its connect() is settled: it opened or it
\* was rejected), the expiry of its connection timeout closes no transport
\* of a later attempt, changes no connection state and fails no later
\* attempt.
C35_TimeoutOwnAttemptOnly ==
  \A t \in Sockets :
    (CanTimeout(t) /\ sockets[t].promise # "pending") =>
      LET after == timeoutEvent(Begin, t)
      IN  /\ after.connectionState = connectionState
          /\ after.pendingCatch = pendingCatch
          /\ \A u \in Sockets \ {t} : after.sockets[u] = sockets[u]

\* transport t can still deliver callbacks into the client: the client's
\* listeners are attached to it and it has not reported its close
Live(t) == sockets[t].listeners /\ sockets[t].ready # "closed"

\* C36: at any time at most one transport created by the client is live with
\* the client's listeners attached, whatever the sequence of connect() calls
\* and reconnection timers, and after close() none is.
C36_OneLiveTransport ==
  /\ Cardinality({t \in Sockets : Live(t)}) <= 1
  /\ isClosed => \A t \in Sockets : ~Live(t)

\* C37: a transport error reported while the state is not 'connecting' is
\* handed unchanged to every registered error handler, once per registration
\* and in registration order, and leaves connection state, client identity,
\* reconnect counter and reconnection timer as they were; no connect() is
\* rejected by it.
C37_ErrorOutsideConnecting ==
  \A t \in Sockets :
    (CanError(t) /\ connectionState # CONNECTING) =>
      LET after == wsErrorEvent(Begin, t)
      IN  /\ after.emitted = <<TransportError>>
          /\ after.calls = CallsOf("error", TransportError)
          /\ after.thrown = "none"
          /\ SameClient(after)
          /\ after.pendingCatch = pendingCatch
          /\ \A u \in Sockets : after.sockets[u].promise = sockets[u].promise

\* the open transport of a connected, confirmed client with two error
\* handlers, the first of which throws, can report an error
C37_Witness ==
  /\ connectionState = CONNECTED
  /\ clientId # "null"
  /\ Len(HandlersOfType(handlers, "error")) = 2
  /\ \E t \in Sockets : CanError(t) /\ sockets[t].ready = "open" /\ ws = t

\* one invocation of each handler of a type in registry hs, in order
Snapshot(hs, type, arg) ==
  LET entries == HandlersOfType(hs, type)
  IN  [i \in 1..Len(entries) |-> Invocation(type, entries[i].handler, arg)]

\* the invocations of one category among those a callback made
CallsOfType(m, type) == SelectSeq(m.calls, LAMBDA c : c.type = type)

\* C38: the handlers invoked for one dispatched message or error are those
\* registered in its category when the dispatch starts, in registration
\* order, whatever the handlers register or remove while it runs; the next
\* dispatch invokes the handlers of the registry the first one left.
C38_DispatchSnapshot ==
  /\ \A t \in Sockets :
       CanMessage(t) =>
         LET m == handleMessage(Begin, RawEvent)
             next == handleMessage([Begin EXCEPT !.handlers = m.handlers],
                                   RawEvent)
             c == handleMessage(Begin, RawConnected)
         IN  /\ m.calls = Snapshot(handlers, "event", JSONparse(RawEvent))
             /\ next.calls =
                  Snapshot(m.handlers, "event", JSONparse(RawEvent))
             /\ CallsOfType(c, "connection") =
                  Snapshot(handlers, "connection", JSONparse(RawConnected))
  /\ LET e == emitError(Begin, TransportError)
         next == emitError([Begin EXCEPT !.handlers = e.handlers],
                           TransportError)
     IN  /\ e.calls = Snapshot(handlers, "error", TransportError)
         /\ next.calls = Snapshot(e.handlers, "error", TransportError)

\* an event is about to be dispatched to an event handler that removes a
\* later event handler and to one that registers a further one
C38_Witness ==
  /\ \E t \in Sockets : CanMessage(t)
  /\ LET hs == HandlersOfType(handlers, "event")
     IN  /\ Len(hs) = 3
         /\ hs[1].handler = "fRemoves"
         /\ hs[2].handler = "g"
         /\ hs[3].handler = "fAdds"

\* how many of the calls m made went to callback h as a handler of a type
Invoked(m, type, h) ==
  Cardinality({i \in 1..Len(m.calls) :
                 m.calls[i].type = type /\ m.calls[i].handler = h})

\* how many times callback h is registered in a category
Registered(hs, type, h) ==
  Cardinality({i \in 1..Len(hs) : hs[i] = Entry(type, h)})

\* C39: removeHandler(h) removes every entry whose callback is h, in every
\* category and however often it was registered, and keeps all other entries
\* in their relative order; a callback registered k times in a category is
\* invoked k times by a dispatch of that category, and not at all once
\* removed.
C39_RemoveHandler ==
  \A h \in Callbacks :
    LET after == removeHandler(Begin, h)
        kept == {i \in 1..Len(handlers) : handlers[i].handler # h}
        rank(i) == Cardinality({j \in kept : j <= i})
        event == JSONparse(RawEvent)
    IN  /\ Len(after.handlers) = Cardinality(kept)
        /\ \A i \in kept : after.handlers[rank(i)] = handlers[i]
        /\ [after EXCEPT !.handlers = handlers] = Begin
        /\ Invoked(handleWebhookEvent(Begin, event), "event", h) =
             Registered(handlers, "event", h)
        /\ Invoked(emitError(Begin, TransportError), "error", h) =
             Registered(handlers, "error", h)
        /\ Invoked(handleConnectionConfirmation(
                     Begin, JSONparse(RawConnected)), "connection", h) =
             Registered(handlers, "connection", h)
        /\ \A type \in HandlerTypes :
             /\ Registered(after.handlers, type, h) = 0
             /\ Invoked(handleWebhookEvent(after, event), type, h) = 0
             /\ Invoked(emitError(after, TransportError), type, h) = 0

\* a callback is registered twice for events, around another event handler
C39_Witness ==
  /\ Len(handlers) = 3
  /\ handlers[1] = Entry("event", "f")
  /\ handlers[2] = Entry("event", "g")
  /\ handlers[3] = Entry("event", "f")

\* the retry loop is under way: a non-authentication disconnect has armed a
\* reconnection timer, or the attempt of such a timer is in progress
Retrying ==
  \/ connectionState = RECONNECTING
  \/ connectionState = CONNECTING /\ cycle.started >= 1

\* the retry loop has ended: connected, closed, or disconnected for good with
\* a terminal reconnection error emitted and nothing left to run
Settled ==
  \/ connectionState = CONNECTED
  \/ connectionState = CLOSED
  \/ /\ connectionState = DISCONNECTED
     /\ ~reconnectTimer
     /\ Idle
     /\ cycle.terminal >= 1

====
